---- MODULE Spec2Model ----
(***************************************************************************)
(* Model of the request execution engine of nozzle/fetcher: Client.Do,     *)
(* httpRespWithRetries and Request.waitForRetry, with the transport, the   *)
(* caller's context, the backoff timer and the multipart encoder as the    *)
(* environment.                                                            *)
(* Spec is the retry loop; SpecNewRequest is Client.NewRequest executing    *)
(* its options; SpecBackoff is one call of backoffStrategy.waitDuration on *)
(* 64-bit durations; SpecRateLimit is the rateLimit and its callers;       *)
(* SpecClient is Client.Do called by a program that holds a rateLimit;     *)
(* SpecResponse is Response.Decode, Bytes and Close over the buffer pool.  *)
(***************************************************************************)
EXTENDS Integers, Sequences, FiniteSets, TLC

(* ------------------------------ bounds --------------------------------- *)

\* largest attempt budget of a request
MaxAttemptsBound == 3

\* largest number of registered afterDo callbacks
MaxAfterDo == 2

\* number of goroutines calling limit on the one rate limiter
NumCallers == 2

\* largest number of options a call of NewRequest is given
MaxOpts == 2

\* largest attempt number handed to waitDuration
MaxWaitAttempt == 66

\* largest rate and largest duration handed to newRateLimit
MaxRate == 2

MaxDur == 2

\* largest number of calls of limit one caller makes
MaxCalls == 2

\* how long the ticker of the rate limiter is followed, from its creation
MaxTime == 4

\* number of Responses alive at once, all drawing on the one buffer pool
NumResponses == 3

\* number of bytes.Buffer values the pool's New function is followed for
NumBuffers == 2

\* number of bytes of a raw response body
BodyLen == 2

\* largest number of options a call of Decode is given
MaxDecodeOpts == 2

\* largest number of calls of Decode, Bytes and Close followed on one Response
MaxResponseOps == 3

\* largest number of calls of Decode, Bytes and Close followed on the
\* Responses that share the pool, altogether
MaxPoolOps == 5

\* the number of bytes of an encoded payload held in a pooled buffer
PayloadLen == 2

\* the most WithReaderMultipartField options given to one NewRequest
MaxFields == 1

\* the most expectations given to one mock Client
MaxExpectations == 2

\* the number of distinct keys given to WithHeader and to WithParam
MaxKeys == 2

\* the most calls made of the mock's Do
MaxMockCalls == 2

(* ----------------------------- data ------------------------------------ *)

\* status codes the transport answers with: both sides of the 500 boundary
Statuses == {200, 499, 500, 503}

\* errors the transport returns: io.EOF, an error whose text contains
\* "read: connection reset by peer", and any other error
TransportErrors == {"EOF", "ConnReset", "Other"}

\* errors a context reports once it is done
CtxErrors == {"Canceled", "DeadlineExceeded"}

\* the nil *http.Response
NoResp == [attempt |-> 0, status |-> 0]

\* the *http.Response of attempt n with status s
Resp(n, s) == [attempt |-> n, status |-> s]

\* what one call of http.Client.Do hands back: a response and no error, or
\* an error and no response
Outcomes ==
    [resp : {Resp(0, s) : s \in Statuses}, err : {"nil"}]
        \cup [resp : {NoResp}, err : TransportErrors]

\* the nil *Response of Do
NilResponse == [request |-> FALSE, response |-> NoResp, body |-> 0]

\* sequences over S of length at most n
SeqUpTo(S, n) == UNION {[1..k -> S] : k \in 0..n}

(* ------------------- time.Duration: 64-bit arithmetic ------------------ *)

\* a time.Duration is an int64 count of nanoseconds, kept here as its eight
\* bytes in two's complement, least significant byte first
RECURSIVE Limb(_, _)
Limb(n, k) == IF k = 1 THEN n % 256 ELSE Limb(n \div 256, k - 1)

\* the eight bytes of f as a tuple
Bytes(f) == <<f[1], f[2], f[3], f[4], f[5], f[6], f[7], f[8]>>

\* the Duration of n nanoseconds, for 0 <= n < 2^31
Dur(n) == Bytes([k \in 1..8 |-> Limb(n, k)])

Zero64 == Dur(0)

Nanosecond == Dur(1)

MaxInt64 == Bytes([k \in 1..8 |-> IF k = 8 THEN 127 ELSE 255])

RECURSIVE carry(_, _, _)
carry(a, b, k) ==
    IF k = 1 THEN 0 ELSE (a[k - 1] + b[k - 1] + carry(a, b, k - 1)) \div 256

\* a + b of Go on int64: the sum modulo 2^64
Add64(a, b) == Bytes([k \in 1..8 |-> (a[k] + b[k] + carry(a, b, k)) % 256])

\* -a of Go on int64
Neg64(a) == Add64(Bytes([k \in 1..8 |-> 255 - a[k]]), Nanosecond)

\* a - b of Go on int64
Sub64(a, b) == Add64(a, Neg64(b))

\* a < 0
IsNeg(a) == a[8] >= 128

RECURSIVE ULess(_, _, _)
ULess(a, b, k) ==
    IF k = 0 THEN FALSE
    ELSE IF a[k] # b[k] THEN a[k] < b[k]
    ELSE ULess(a, b, k - 1)

\* a < b of Go on int64
Less64(a, b) == IF IsNeg(a) # IsNeg(b) THEN IsNeg(a) ELSE ULess(a, b, 8)

\* a <= 0
NonPositive(a) == ~Less64(Zero64, a)

RECURSIVE mulCarry(_, _, _)
mulCarry(a, m, k) ==
    IF k = 1 THEN 0 ELSE (a[k - 1] * m + mulCarry(a, m, k - 1)) \div 256

\* a * time.Duration(m) of Go on int64, for an int m of small magnitude
Mul64(a, m) ==
    IF m < 0
    THEN Neg64(Bytes([k \in 1..8 |-> (a[k] * (0 - m) + mulCarry(a, 0 - m, k)) % 256]))
    ELSE Bytes([k \in 1..8 |-> (a[k] * m + mulCarry(a, m, k)) % 256])

RECURSIVE Pow2(_)
Pow2(n) == IF n <= 0 THEN 1 ELSE 2 * Pow2(n - 1)

\* a << uint(n) of Go on int64: zero once the count reaches the width, and a
\* negative n converts to a count beyond the width. The shift is done as
\* n % 8 bit positions followed by n \div 8 byte positions.
Shl64(a, n) ==
    IF n < 0 \/ n >= 64 THEN Zero64
    ELSE LET bits == Mul64(a, Pow2(n % 8))
             q    == n \div 8
         IN  Bytes([k \in 1..8 |-> IF k > q THEN bits[k - q] ELSE 0])

RECURSIVE divRem(_, _, _)
divRem(a, d, k) == IF k > 8 THEN 0 ELSE (divRem(a, d, k + 1) * 256 + a[k]) % d

\* the quotient of the unsigned value of a by a small d > 0
UDiv64(a, d) == Bytes([k \in 1..8 |-> (divRem(a, d, k + 1) * 256 + a[k]) \div d])

\* a / d of Go on int64 for a small d > 0: the quotient truncated toward zero
Quo64(a, d) == IF IsNeg(a) THEN Neg64(UDiv64(Neg64(a), d)) ELSE UDiv64(a, d)

Second == Dur(1000000000)

(* --------------------------- backoff ----------------------------------- *)

\* what a call hands back when it panics instead of returning a Duration
Panicked == << >>

\* the values rand.Int63n can be made to return: the least, the middle and
\* the greatest of its range
Draws == {"least", "middle", "greatest"}

\* rand.Int63n(n): panics when n <= 0, else a value in [0, n)
Int63n(n, r) ==
    IF NonPositive(n) THEN Panicked
    ELSE CASE r = "least" -> Zero64
           [] r = "middle" -> UDiv64(n, 2)
           [] r = "greatest" -> Sub64(n, Nanosecond)

\* jitter adjusts the baseDelay +/- 33%
jitter(baseDelay, r) ==
    LET delayNs   == baseDelay
        maxJitter == Quo64(delayNs, 3)
        drawn     == Int63n(Add64(maxJitter, maxJitter), r)
    IN  IF drawn = Panicked THEN Panicked
        ELSE LET moved == Add64(delayNs, Sub64(drawn, maxJitter))
             IN  IF NonPositive(moved) THEN Nanosecond ELSE moved

normalizeDelay(baseDelay, min, max) ==
    IF Less64(max, baseDelay) THEN max
    ELSE IF Less64(baseDelay, min) THEN min
    ELSE baseDelay

\* backoffStrategy.waitDuration of noBackoff, exponentialBackoff and
\* linearBackoff; r is the value the random source hands to jitter
waitDuration(b, attempt, r) ==
    CASE b.kind = "none" -> b.delay
      [] b.kind = "exponential" ->
            LET delay == Shl64(b.min, attempt - 1)
                d == IF b.useJitter THEN jitter(delay, r) ELSE delay
            IN  IF d = Panicked THEN Panicked ELSE normalizeDelay(d, b.min, b.max)
      [] b.kind = "linear" ->
            LET delay == Add64(b.min, Mul64(b.interval, attempt - 1))
                d == IF b.useJitter THEN jitter(delay, r) ELSE delay
            IN  IF d = Panicked THEN Panicked ELSE normalizeDelay(d, b.min, b.max)

noBackoff(delay) ==
    [kind |-> "none", delay |-> delay, min |-> Zero64, max |-> Zero64,
     interval |-> Zero64, useJitter |-> FALSE]

exponentialBackoff(min, max, useJitter) ==
    [kind |-> "exponential", delay |-> Zero64, min |-> min, max |-> max,
     interval |-> Zero64, useJitter |-> useJitter]

linearBackoff(min, max, interval, useJitter) ==
    [kind |-> "linear", delay |-> Zero64, min |-> min, max |-> max,
     interval |-> interval, useJitter |-> useJitter]

defaultBackoffStrategy == exponentialBackoff(Second, Mul64(Second, 30), TRUE)

\* the strategies the requests of the retry loop carry
Strategies ==
    { noBackoff(Zero64),
      noBackoff(Dur(2)),
      exponentialBackoff(Nanosecond, Dur(3), FALSE) }

(* ----------------------------- state ----------------------------------- *)

VARIABLES
    req,        \* the Request: maxAttempts, retryOnEOFError, optMultiPartForm,
                \* multiPartFormErr, afterDoFuncs, deadline, backoffStrategy
    ctxErr,     \* Err() of the context the caller passed to Do
    cErr,       \* Err() of the context c the attempt loop runs under
    pc,         \* where Do is: idle, inflight, waiting, done, panic
    i,          \* loop variable of httpRespWithRetries
    attempts,   \* number of calls made to http.Client.Do
    httpResp,   \* httpResp of httpRespWithRetries
    err,        \* err of httpRespWithRetries
    outcomes,   \* what the transport returned, attempt by attempt
    bodies,     \* per attempt, the response body: none, open, closed
    waited,     \* attempts whose backoff wait ran to the end of its delay
    sel,        \* the case the select of waitForRetry takes: none, timer, ctx
    called,     \* the afterDo callbacks invoked, in order, each with its argument
    result      \* what Do returned: [resp, err]

\* Client.NewRequest
VARIABLES
    opts,       \* cl.parentRequestOptions followed by the options of the call
    optIdx,     \* how many of opts the loop of NewRequest has executed
    newReq,     \* the Request NewRequest is building
    parentOpts, \* cl.parentRequestOptions at the call of NewRequest
    newPc       \* where NewRequest is: idle, options, built, failed

\* a call of backoffStrategy.waitDuration
VARIABLES
    strategy,   \* the receiver of the call
    wdAttempt,  \* its argument attempt
    draw,       \* what the random source hands to jitter during the call
    wdDelay     \* what the call returned, or Panicked

\* the rate limiter and the goroutines that call limit on it
VARIABLES
    rate,       \* first argument of newRateLimit
    dur,        \* second argument of newRateLimit
    rl,         \* the rateLimit: enforcedRate, the state of its ticker and
                \* the number of ticks held by the ticker's channel
    rlPc,       \* where the construction is: idle, built, panic
    limitPc,    \* per caller: idle, blocked (in the select), returned
    limitCtx,   \* per caller: whether the context given to limit is done
    limitBy,    \* per caller: how its last call of limit returned
    limitCalls, \* per caller: the number of calls of limit it has made
    tickTime,   \* when the ticker last fired, counted from its creation
    pending,    \* when the tick held by the ticker's channel was sent, 0 if none
    admitted,   \* the calls that returned by a tick: the caller and when the
                \* tick was sent, in order of return
    resps,      \* per Response: the Content-Type header, decodeFunc, body (the
                \* raw stream or a tee over it), copiedBody, keepBody,
                \* bodyClosed, how far the raw stream was read, whether
                \* response.Body.Close was called
    nresp,      \* the number of Responses NewResponse has built
    pool,       \* bufferPool: per buffer, how many times the pool holds it
    bufs,       \* the contents of each bytes.Buffer
    allocated,  \* the number of buffers the pool's New function has made
    owner,      \* per buffer: the Response getBuffer last handed it to and that
                \* has not handed it to putBuffer since, 0 if there is none
    lastCall,   \* the last call of Decode, Bytes or Close: its receiver, what
                \* its options selected, what it invoked, read and returned
    closed,     \* per Response: what each call of Close since its last Decode
                \* or Bytes returned, which buffer it handed to putBuffer,
                \* whether it called response.Body.Close and what that returned
    ops         \* the number of calls of Decode, Bytes and Close so far

\* the payload of the Request and the multipart encoder
VARIABLES
    payload,    \* req.payload: nil, buffer (a pooled *bytes.Buffer), pipe
    newRequestPc, \* where the NewRequest call that builds req is: idle,
                \* WriteField (inside multipartPayload), returned
    encPc,      \* where the goroutine of multipartPayload is: none,
                \* CreateFormFile, Copy, Close, exited
    pipe,       \* the io.Pipe of multipartPayload: none, open, readerClosed,
                \* writerClosed
    consumedBy  \* per byte of the buffer payload: the attempt whose transport
                \* call read it from req.payload, 0 while it is unread

\* the fetchermock Client
VARIABLES
    expectedRequests, \* cl.expectedRequests: per ExpectedRequest its request
                \* (with what is left unread of its payload), that request
                \* as ExpectRequest built it, err, responseStatusCode, the
                \* body given, the response built for it, wasMet
    withExpectationsInOrder, \* cl.withExpectationsInOrder
    mockPc,     \* ready, or panic once a call of Do has panicked
    lastDo,     \* the last call of the mock's Do: the request as it was
                \* passed and as Do left it, the unmet expectations that
                \* equalled it as built, and what Do returned
    metBy,      \* per expectation: the number of calls of Do matched to it
    mockCalls   \* the number of calls of the mock's Do so far

doVars == <<req, ctxErr, cErr, pc, i, attempts, httpResp, err, outcomes,
            bodies, waited, sel, called, result>>

newRequestVars == <<opts, optIdx, newReq, parentOpts, newPc>>

backoffVars == <<strategy, wdAttempt, draw, wdDelay>>

rateLimitVars == <<rate, dur, rl, rlPc, limitPc, limitCtx, limitBy, limitCalls,
                   tickTime, pending, admitted>>

responseVars == <<resps, nresp, pool, bufs, allocated, owner, lastCall, closed, ops>>

payloadVars == <<payload, newRequestPc, encPc, pipe, consumedBy>>

mockVars == <<expectedRequests, withExpectationsInOrder, mockPc, lastDo, metBy, mockCalls>>

vars == <<doVars, newRequestVars, backoffVars, rateLimitVars, responseVars, payloadVars, mockVars>>

NoResult == [resp |-> NilResponse, err |-> "none"]

Requests ==
    [maxAttempts : 1..MaxAttemptsBound,
     retryOnEOFError : BOOLEAN,
     optMultiPartForm : BOOLEAN,
     multiPartFormErr : {"nil"},
     afterDoFuncs : SeqUpTo({"nil", "AfterDo"}, MaxAfterDo),
     deadline : BOOLEAN,
     backoffStrategy : Strategies]

\* NewRequest has not been called
NewRequestIdle ==
    /\ opts = << >>
    /\ optIdx = 0
    /\ newReq = [maxAttempts |-> 0, retryOnEOFError |-> FALSE, afterDoFuncs |-> << >>,
                 headers |-> << >>, params |-> << >>, rawQuery |-> << >>]
    /\ parentOpts = << >>
    /\ newPc = "idle"

\* no call of waitDuration is being looked at
BackoffIdle ==
    /\ strategy = noBackoff(Zero64)
    /\ wdAttempt = 0
    /\ draw = "least"
    /\ wdDelay = Zero64

\* the callers of limit, NumCallers of them
Callers == 1..NumCallers

\* the zero value rateLimit{}: no rate enforced, no ticker
NoRateLimit == [enforcedRate |-> 0, ticker |-> "nil", ticks |-> 0]

\* no rate limiter has been constructed
RateLimitIdle ==
    /\ rate = 0
    /\ dur = 0
    /\ rl = NoRateLimit
    /\ rlPc = "idle"
    /\ limitPc = [c \in Callers |-> "idle"]
    /\ limitCtx = [c \in Callers |-> FALSE]
    /\ limitBy = [c \in Callers |-> "none"]
    /\ limitCalls = [c \in Callers |-> 0]
    /\ tickTime = 0
    /\ pending = 0
    /\ admitted = << >>

\* the Responses, NumResponses of them, and the buffers of the pool
Responses == 1..NumResponses

Buffers == 1..NumBuffers

\* a Response NewResponse has not built yet
NoResponse ==
    [contentType |-> "", decodeFunc |-> "nil", body |-> "none", copiedBody |-> 0,
     keepBody |-> FALSE, bodyClosed |-> FALSE, rawPos |-> 0, rawClosed |-> FALSE,
     closedBy |-> "none"]

NoCall == [op |-> "none", r |-> 0, explicit |-> "nil", copied |-> FALSE, pre |-> "nil",
           invoked |-> "nil", consumed |-> << >>, err |-> "nil", shared |-> FALSE]

\* no Response has been built and the pool has handed out nothing
ResponseIdle ==
    /\ resps = [r \in Responses |-> NoResponse]
    /\ nresp = 0
    /\ pool = [b \in Buffers |-> 0]
    /\ bufs = [b \in Buffers |-> << >>]
    /\ allocated = 0
    /\ owner = [b \in Buffers |-> 0]
    /\ lastCall = NoCall
    /\ closed = [r \in Responses |-> << >>]
    /\ ops = 0

\* the Request was built without a payload and no multipart encoder runs
PayloadIdle ==
    /\ payload = "nil"
    /\ newRequestPc = "returned"
    /\ encPc = "none"
    /\ pipe = "none"
    /\ consumedBy = [p \in 1..PayloadLen |-> 0]

\* a request as the mock compares it: Request.Equal looks at method and url
\* (one field here), maxAttempts, headers and payload; the payload is nil or
\* a reader with some bytes left unread
MockRequest(u, n, hs, isNil, bs) ==
    [url |-> u, maxAttempts |-> n, headers |-> hs,
     payload |-> [isNil |-> isNil, unread |-> bs]]

\* what the mock compares nothing with: no call of Do has been made
NoDo ==
    [ctxDone |-> FALSE, passed |-> MockRequest("", 0, << >>, TRUE, << >>),
     left |-> MockRequest("", 0, << >>, TRUE, << >>), equalUnmet |-> {},
     metIdx |-> 0, err |-> "none", statusCode |-> 0, body |-> 0]

\* a mock Client without expectations
MockIdle ==
    /\ expectedRequests = << >>
    /\ withExpectationsInOrder = TRUE
    /\ mockPc = "ready"
    /\ lastDo = NoDo
    /\ metBy = [k \in 1..MaxExpectations |-> 0]
    /\ mockCalls = 0

Init ==
    /\ NewRequestIdle
    /\ BackoffIdle
    /\ RateLimitIdle
    /\ ResponseIdle
    /\ PayloadIdle
    /\ MockIdle
    /\ req \in Requests
    /\ ctxErr \in {"nil"} \cup CtxErrors
    /\ cErr = ctxErr
    /\ pc = "idle"
    /\ i = 0
    /\ attempts = 0
    /\ httpResp = NoResp
    /\ err = "nil"
    /\ outcomes = << >>
    /\ bodies = [n \in 1..MaxAttemptsBound |-> "none"]
    /\ waited = {}
    /\ sel = "none"
    /\ called = << >>
    /\ result = NoResult

(* ----------------------- Request helpers ------------------------------- *)

\* strings.Contains(err.Error(), "read: connection reset by peer")
containsConnReset(e) == e = "ConnReset"

\* isErrBreaking retrying io.EOF whether or not WithRetryOnEOFError was given
isErrBreaking_eofAlways(r, e) ==
    IF containsConnReset(e) \/ e = "EOF"
    THEN FALSE
    ELSE TRUE

\* Request.isErrBreaking: false for the errors the loop retries
isErrBreaking(r, e) ==
    IF containsConnReset(e) \/ (r.retryOnEOFError /\ e = "EOF")
    THEN FALSE
    ELSE TRUE

\* the loop comparing the attempt number with maxAttempts one too late
loopDecision_offByOne(r, idx, hr, e) ==
    IF e # "nil" /\ isErrBreaking(r, e) THEN "return_err"
    ELSE IF e # "EOF" /\ idx = 1 /\ r.optMultiPartForm /\ r.multiPartFormErr # "nil"
         THEN "return_multipart"
    ELSE IF e # "EOF" /\ hr = NoResp THEN "panic"
    ELSE IF e # "EOF" /\ hr.status < 500 THEN "return_resp"
    ELSE IF idx = r.maxAttempts + 1 THEN "return_last"
    ELSE "retry"

\* the loop giving up on the first 5xx response
loopDecision_noRetry(r, idx, hr, e) ==
    IF e # "nil" /\ isErrBreaking(r, e) THEN "return_err"
    ELSE IF e # "EOF" /\ idx = 1 /\ r.optMultiPartForm /\ r.multiPartFormErr # "nil"
         THEN "return_multipart"
    ELSE IF e # "EOF" /\ hr = NoResp THEN "panic"
    ELSE IF e # "EOF" /\ hr.status < 500 THEN "return_resp"
    ELSE "return_last"

\* the loop retrying every status from 400 up
loopDecision_retry4xx(r, idx, hr, e) ==
    IF e # "nil" /\ isErrBreaking(r, e) THEN "return_err"
    ELSE IF e # "EOF" /\ idx = 1 /\ r.optMultiPartForm /\ r.multiPartFormErr # "nil"
         THEN "return_multipart"
    ELSE IF e # "EOF" /\ hr = NoResp THEN "panic"
    ELSE IF e # "EOF" /\ hr.status < 400 THEN "return_resp"
    ELSE IF idx = r.maxAttempts THEN "return_last"
    ELSE "retry"

\* the switch of httpRespWithRetries and the checks around it: what the loop
\* does with the outcome (hr, e) of attempt idx
\*   return_err        return nil, err                     (breaking error)
\*   return_multipart  return nil, req.multiPartFormErr
\*   panic             httpResp.StatusCode read through a nil httpResp
\*   return_resp       return httpResp, nil                (status < 500)
\*   return_last       return httpResp, err                (budget used up)
\*   retry             close the body and wait
loopDecision(r, idx, hr, e) ==
    IF e # "nil" /\ isErrBreaking(r, e) THEN "return_err"
    ELSE IF e # "EOF" /\ idx = 1 /\ r.optMultiPartForm /\ r.multiPartFormErr # "nil"
         THEN "return_multipart"
    ELSE IF e # "EOF" /\ hr = NoResp THEN "panic"
    ELSE IF e # "EOF" /\ hr.status < 500 THEN "return_resp"
    ELSE IF idx = r.maxAttempts THEN "return_last"
    ELSE "retry"

\* the select of waitForRetry without its Done case
selectReady_noCtx(delay, ce) == IF NonPositive(delay) THEN {"timer"} ELSE {}

\* the cases of the select of waitForRetry that are ready when it is entered:
\* the context's Done channel if the context is done, the timer if the delay
\* is not positive
selectReady(delay, ce) ==
    (IF ce # "nil" THEN {"ctx"} ELSE {})
        \cup (IF NonPositive(delay) THEN {"timer"} ELSE {})

\* NewResponse wraps the transport response and takes over its body
NewResponse(r, hr) == [request |-> TRUE, response |-> hr, body |-> hr.attempt]

\* index of the first afterDo callback that returns an error, 0 if none does
FirstFail(fs) ==
    IF \E k \in 1..Len(fs) : fs[k] # "nil"
    THEN CHOOSE k \in 1..Len(fs) :
            /\ fs[k] # "nil"
            /\ \A j \in 1..(k - 1) : fs[j] = "nil"
    ELSE 0

\* the afterDo loop going on after a callback has returned an error
afterDoCalls_all(fs, hr) == [k \in 1..Len(fs) |-> [fn |-> k, resp |-> hr]]

\* the afterDo loop of Do: the callbacks it invokes, in order, each with the
\* response built from hr; the loop stops at the first one that returns an error
afterDoCalls(fs, hr) ==
    LET ff == FirstFail(fs)
        n  == IF ff = 0 THEN Len(fs) ELSE ff
    IN  [k \in 1..n |-> [fn |-> k, resp |-> hr]]

(* --------------------------- Client.Do --------------------------------- *)

\* Do returns (resp, e); the deferred cancelFunc of the deadline context runs
DoReturn(resp, e) ==
    /\ result' = [resp |-> resp, err |-> e]
    /\ pc' = "done"
    /\ cErr' = IF req.deadline /\ cErr = "nil" THEN "Canceled" ELSE cErr

\* Do handing back the response together with the error of a failed callback
DoAfterLoop_keepResp(hr, e) ==
    IF e # "nil"
    THEN DoReturn(NilResponse, e) /\ called' = called
    ELSE IF hr = NoResp
    THEN pc' = "panic" /\ UNCHANGED <<result, cErr, called>>
    ELSE LET ff == FirstFail(req.afterDoFuncs) IN
         IF ff = 0
         THEN DoReturn(NewResponse(req, hr), "nil")
                /\ called' = afterDoCalls(req.afterDoFuncs, hr)
         ELSE DoReturn(NewResponse(req, hr), req.afterDoFuncs[ff])
                /\ called' = afterDoCalls(req.afterDoFuncs, hr)

\* Do after httpRespWithRetries has returned (hr, e): the error check,
\* NewResponse and the afterDo callbacks
DoAfterLoop(hr, e) ==
    IF e # "nil"
    THEN DoReturn(NilResponse, e) /\ called' = called
    ELSE IF hr = NoResp
    THEN pc' = "panic" /\ UNCHANGED <<result, cErr, called>>
    ELSE LET ff == FirstFail(req.afterDoFuncs) IN
         IF ff = 0
         THEN DoReturn(NewResponse(req, hr), "nil")
                /\ called' = afterDoCalls(req.afterDoFuncs, hr)
         ELSE DoReturn(NilResponse, req.afterDoFuncs[ff])
                /\ called' = afterDoCalls(req.afterDoFuncs, hr)

\* Do starting the request without looking at the caller's context
DoEnter_noCtxCheck ==
    /\ pc = "idle"
    /\ UNCHANGED <<newRequestVars, backoffVars, rateLimitVars, responseVars, payloadVars, mockVars>>
    /\ pc' = "inflight"
    /\ i' = 1
    /\ attempts' = attempts + 1
    /\ UNCHANGED <<result, cErr>>
    /\ UNCHANGED <<req, ctxErr, httpResp, err, outcomes, bodies, waited, sel, called>>

\* Do is called: the check of the caller's context, the derivation of the
\* deadline context, and the start of the first physical attempt
DoEnter ==
    /\ pc = "idle"
    /\ UNCHANGED <<newRequestVars, backoffVars, rateLimitVars, responseVars, payloadVars, mockVars>>
    /\ IF ctxErr # "nil"
       THEN /\ DoReturn(NilResponse, ctxErr)
            /\ UNCHANGED <<i, attempts>>
       ELSE /\ pc' = "inflight"
            /\ i' = 1
            /\ attempts' = attempts + 1
            /\ UNCHANGED <<result, cErr>>
    /\ UNCHANGED <<req, ctxErr, httpResp, err, outcomes, bodies, waited, sel, called>>

\* the loop dropping the response without closing its body
closeBody_skip(bs, idx) == bs

\* httpResp.Body.Close() before the reference to the response is lost
closeBody(bs, idx) == [bs EXCEPT ![idx] = "closed"]

\* the record kept of attempt idx: what the transport returned, the value of
\* req.multiPartFormErr the loop found, and whether Body.Close failed
attemptRecord(hr, e, formErr, closeFailed) ==
    [resp |-> hr, err |-> e, formErr |-> formErr, closeErr |-> closeFailed]

\* http.Client.Do returns outcome o for attempt i; the loop runs on to its
\* next suspension point. closeErr: whether Body.Close fails when called;
\* r: the value the random source hands to the backoff strategy.
TransportReturn(o, closeErr, r) ==
    /\ pc = "inflight"
    /\ UNCHANGED <<newRequestVars, backoffVars, rateLimitVars, responseVars, payloadVars, mockVars>>
    /\ LET hr == IF o.err = "nil" THEN Resp(i, o.resp.status) ELSE NoResp
           d  == loopDecision(req, i, hr, o.err)
           opened == IF hr = NoResp THEN bodies ELSE [bodies EXCEPT ![i] = "open"]
           closeFailed == d = "retry" /\ hr # NoResp /\ closeErr
           delay == waitDuration(req.backoffStrategy, i, r)
           ready == IF delay = Panicked THEN {} ELSE selectReady(delay, cErr)
       IN
       /\ httpResp' = hr
       /\ outcomes' = Append(outcomes,
                             attemptRecord(hr, o.err, req.multiPartFormErr, closeFailed))
       /\ CASE d = "return_err" ->
                 /\ DoAfterLoop(NoResp, o.err)
                 /\ err' = o.err
                 /\ bodies' = opened
                 /\ UNCHANGED sel
            [] d = "return_multipart" ->
                 /\ DoAfterLoop(NoResp, req.multiPartFormErr)
                 /\ err' = o.err
                 /\ bodies' = opened
                 /\ UNCHANGED sel
            [] d = "panic" ->
                 /\ pc' = "panic"
                 /\ err' = o.err
                 /\ bodies' = opened
                 /\ UNCHANGED <<result, cErr, called, sel>>
            [] d = "return_resp" ->
                 /\ DoAfterLoop(hr, "nil")
                 /\ err' = o.err
                 /\ bodies' = opened
                 /\ UNCHANGED sel
            [] d = "return_last" ->
                 /\ DoAfterLoop(hr, o.err)
                 /\ err' = o.err
                 /\ bodies' = opened
                 /\ UNCHANGED sel
            [] d = "retry" ->
                 /\ bodies' = IF hr = NoResp THEN opened ELSE closeBody(opened, i)
                 /\ IF closeFailed
                    THEN /\ err' = "BodyClose"
                         /\ DoAfterLoop(NoResp, "BodyClose")
                         /\ UNCHANGED sel
                    ELSE /\ err' = IF hr = NoResp THEN o.err ELSE "nil"
                         /\ pc' = IF delay = Panicked THEN "panic" ELSE "waiting"
                         /\ IF ready = {} THEN sel' = "none" ELSE sel' \in ready
                         /\ UNCHANGED <<result, cErr, called>>
    /\ UNCHANGED <<req, ctxErr, i, attempts, waited>>

\* the delay of the backoff wait runs out while the select is blocked
TimerFire ==
    /\ pc = "waiting"
    /\ UNCHANGED <<newRequestVars, backoffVars, rateLimitVars, responseVars, payloadVars, mockVars>>
    /\ sel = "none"
    /\ sel' = "timer"
    /\ UNCHANGED <<req, ctxErr, cErr, pc, i, attempts, httpResp, err, outcomes,
                   bodies, waited, called, result>>

\* waitForRetry sleeping out the delay whatever the context does
waitForRetry_ignoreCtx ==
    /\ pc = "waiting"
    /\ UNCHANGED <<newRequestVars, backoffVars, rateLimitVars, responseVars, payloadVars, mockVars>>
    /\ sel # "none"
    /\ waited' = waited \cup {i}
    /\ i' = i + 1
    /\ attempts' = attempts + 1
    /\ pc' = "inflight"
    /\ err' = "nil"
    /\ UNCHANGED <<result, cErr, called>>
    /\ UNCHANGED <<req, ctxErr, httpResp, outcomes, bodies, sel>>

\* waitForRetry returns with the case its select took, and the loop goes on:
\* the next physical attempt, or the return of the context's error
waitForRetry ==
    /\ pc = "waiting"
    /\ UNCHANGED <<newRequestVars, backoffVars, rateLimitVars, responseVars, payloadVars, mockVars>>
    /\ sel # "none"
    /\ IF sel = "timer"
       THEN /\ waited' = waited \cup {i}
            /\ i' = i + 1
            /\ attempts' = attempts + 1
            /\ pc' = "inflight"
            /\ err' = "nil"
            /\ UNCHANGED <<result, cErr, called>>
       ELSE /\ err' = cErr
            /\ DoAfterLoop(NoResp, cErr)
            /\ UNCHANGED <<waited, i, attempts>>
    /\ UNCHANGED <<req, ctxErr, httpResp, outcomes, bodies, sel>>

(* --------------------------- environment ------------------------------- *)

\* a blocked select of waitForRetry is woken by the context's Done channel
wake(ce) == IF pc = "waiting" /\ sel = "none" /\ ce # "nil" THEN "ctx" ELSE sel

\* the caller's context is cancelled or passes its own deadline
Cancel(e) ==
    /\ pc \notin {"done", "panic"}
    /\ UNCHANGED <<newRequestVars, backoffVars, rateLimitVars, responseVars, payloadVars, mockVars>>
    /\ ctxErr = "nil"
    /\ ctxErr' = e
    /\ cErr' = IF cErr = "nil" THEN e ELSE cErr
    /\ sel' = wake(cErr')
    /\ UNCHANGED <<req, pc, i, attempts, httpResp, err, outcomes, bodies,
                   waited, called, result>>

\* the deadline of the request passes: the context derived by Do is done
DeadlineExceeded ==
    /\ pc \in {"inflight", "waiting"}
    /\ UNCHANGED <<newRequestVars, backoffVars, rateLimitVars, responseVars, payloadVars, mockVars>>
    /\ req.deadline
    /\ cErr = "nil"
    /\ cErr' = "DeadlineExceeded"
    /\ sel' = wake(cErr')
    /\ UNCHANGED <<req, ctxErr, pc, i, attempts, httpResp, err, outcomes,
                   bodies, waited, called, result>>

\* the multipart encoder goroutine fails and writes req.multiPartFormErr
EncoderFail ==
    /\ pc \in {"idle", "inflight"}
    /\ UNCHANGED <<newRequestVars, backoffVars, rateLimitVars, responseVars, payloadVars, mockVars>>
    /\ req.optMultiPartForm
    /\ req.multiPartFormErr = "nil"
    /\ req' = [req EXCEPT !.multiPartFormErr = "MultiPartForm"]
    /\ UNCHANGED <<ctxErr, cErr, pc, i, attempts, httpResp, err, outcomes,
                   bodies, waited, sel, called, result>>

Next ==
    \/ DoEnter
    \/ \E o \in Outcomes, closeErr \in BOOLEAN, r \in Draws :
            TransportReturn(o, closeErr, r)
    \/ TimerFire
    \/ waitForRetry
    \/ \E e \in CtxErrors : Cancel(e)
    \/ DeadlineExceeded
    \/ EncoderFail

Spec == Init /\ [][Next]_vars

TypeOK ==
    /\ pc \in {"idle", "inflight", "waiting", "done", "panic"}
    /\ i \in 0..MaxAttemptsBound
    /\ attempts \in 0..MaxAttemptsBound
    /\ sel \in {"none", "timer", "ctx"}

(* ------------------------- Client.NewRequest --------------------------- *)

\* the retry loop has not been entered
DoIdle ==
    /\ req = [maxAttempts |-> 1, retryOnEOFError |-> FALSE,
              optMultiPartForm |-> FALSE, multiPartFormErr |-> "nil",
              afterDoFuncs |-> << >>, deadline |-> FALSE,
              backoffStrategy |-> noBackoff(Zero64)]
    /\ ctxErr = "nil"
    /\ cErr = "nil"
    /\ pc = "idle"
    /\ i = 0
    /\ attempts = 0
    /\ httpResp = NoResp
    /\ err = "nil"
    /\ outcomes = << >>
    /\ bodies = [n \in 1..MaxAttemptsBound |-> "none"]
    /\ waited = {}
    /\ sel = "none"
    /\ called = << >>
    /\ result = NoResult

\* the RequestOptions of the model: WithMaxAttempts(n) for n from -1 up,
\* WithRetryOnEOFError(), WithAfterDoFunc(f), WithJSONPayload(v) with a
\* value json.Marshal rejects, and WithHeader and WithParam with the n-th of
\* MaxKeys keys (and a value that goes with it)
RequestOptions ==
    {[name |-> "WithMaxAttempts", n |-> n] : n \in (0 - 1)..MaxAttemptsBound}
        \cup {[name |-> "WithRetryOnEOFError", n |-> 0],
              [name |-> "WithAfterDoFunc", n |-> 0],
              [name |-> "WithJSONPayload", n |-> 0]}
        \cup {[name |-> "WithHeader", n |-> n] : n \in 1..MaxKeys}
        \cup {[name |-> "WithParam", n |-> n] : n \in 1..MaxKeys}

\* url.Values.Encode() of the params added in the order ps: the query, which
\* lists the keys in sorted order and the values of one key in the order added
RECURSIVE encodeFrom(_, _)
encodeFrom(ps, key) ==
    IF key > MaxKeys THEN << >>
    ELSE SelectSeq(ps, LAMBDA x : x = key) \o encodeFrom(ps, key + 1)

Encode(ps) == encodeFrom(ps, 1)

\* WithMaxAttempts storing its argument as given
WithMaxAttempts_noClamp(n, r) == [r EXCEPT !.maxAttempts = n]

\* the option WithMaxAttempts(n) executed on the Request r
WithMaxAttempts(n, r) == [r EXCEPT !.maxAttempts = IF n < 1 THEN 1 ELSE n]

\* whether the option o returns an error
optionFails(o) == o.name = "WithJSONPayload"

\* the Request the option o leaves when it is executed on the Request r
executeOption(o, r) ==
    CASE o.name = "WithMaxAttempts" -> WithMaxAttempts(o.n, r)
      [] o.name = "WithRetryOnEOFError" -> [r EXCEPT !.retryOnEOFError = TRUE]
      [] o.name = "WithAfterDoFunc" ->
            [r EXCEPT !.afterDoFuncs = Append(r.afterDoFuncs, "nil")]
      [] o.name = "WithJSONPayload" -> r
      [] o.name = "WithHeader" -> [r EXCEPT !.headers = Append(r.headers, o.n)]
      [] o.name = "WithParam" -> [r EXCEPT !.params = Append(r.params, o.n)]

\* NewRequest putting the options of the call before those of the client
NewRequest_callFirst(parentRequestOptions, os) ==
    /\ newPc = "idle"
    /\ opts' = os \o parentRequestOptions
    /\ optIdx' = 0
    /\ parentOpts' = parentRequestOptions
    /\ newReq' = [maxAttempts |-> 1, retryOnEOFError |-> FALSE, afterDoFuncs |-> << >>,
                  headers |-> << >>, params |-> << >>, rawQuery |-> << >>]
    /\ newPc' = "options"
    /\ UNCHANGED <<doVars, backoffVars, rateLimitVars, responseVars, payloadVars, mockVars>>

\* NewRequest is called: the Request literal and the prepending of
\* cl.parentRequestOptions to the options of the call
NewRequest(parentRequestOptions, os) ==
    /\ newPc = "idle"
    /\ opts' = parentRequestOptions \o os
    /\ optIdx' = 0
    /\ parentOpts' = parentRequestOptions
    /\ newReq' = [maxAttempts |-> 1, retryOnEOFError |-> FALSE, afterDoFuncs |-> << >>,
                  headers |-> << >>, params |-> << >>, rawQuery |-> << >>]
    /\ newPc' = "options"
    /\ UNCHANGED <<doVars, backoffVars, rateLimitVars, responseVars, payloadVars, mockVars>>

\* one turn of the loop that executes the options
NewRequestOption ==
    /\ newPc = "options"
    /\ optIdx < Len(opts)
    /\ newReq' = executeOption(opts[optIdx + 1], newReq)
    /\ newPc' = IF optionFails(opts[optIdx + 1]) THEN "failed" ELSE newPc
    /\ optIdx' = optIdx + 1
    /\ UNCHANGED <<opts, parentOpts>>
    /\ UNCHANGED <<doVars, backoffVars, rateLimitVars, responseVars, payloadVars, mockVars>>

\* after the options: http.NewRequest succeeds or rejects method and url, then
\* headers, params, cookies and BasicAuth are copied to the http.Request
NewRequestBuild(ok) ==
    /\ newPc = "options"
    /\ optIdx = Len(opts)
    /\ newPc' = IF ok THEN "built" ELSE "failed"
    /\ newReq' = IF ok THEN [newReq EXCEPT !.rawQuery = Encode(newReq.params)]
                  ELSE newReq
    /\ UNCHANGED <<opts, optIdx, parentOpts>>
    /\ UNCHANGED <<doVars, backoffVars, rateLimitVars, responseVars, payloadVars, mockVars>>

InitNewRequest == DoIdle /\ NewRequestIdle /\ BackoffIdle /\ RateLimitIdle /\ ResponseIdle
    /\ PayloadIdle
    /\ MockIdle

NextNewRequest ==
    \/ newPc = "idle"
            /\ \E p \in SeqUpTo(RequestOptions, 1), os \in SeqUpTo(RequestOptions, MaxOpts) :
                    NewRequest(p, os)
    \/ NewRequestOption
    \/ \E ok \in BOOLEAN : NewRequestBuild(ok)

SpecNewRequest == InitNewRequest /\ [][NextNewRequest]_vars

(* ---------------------- backoffStrategy.waitDuration ------------------- *)

\* the strategies waitDuration is called on: every combination of the
\* durations below with 0 < min <= max and interval >= 0, with and without
\* jitter, among them the default strategy; and two noBackoff strategies
BackoffConfigs ==
    LET mins == {Nanosecond, Dur(3), Second}
        maxs == {Dur(3), Mul64(Second, 30), MaxInt64}
        intervals == {Zero64, Nanosecond, Second, Shl64(Nanosecond, 62)}
        bounds == {mm \in mins \X maxs : ~Less64(mm[2], mm[1])}
    IN  {exponentialBackoff(mm[1], mm[2], j) : mm \in bounds, j \in BOOLEAN}
            \cup {linearBackoff(mm[1], mm[2], iv, j) :
                        mm \in bounds, iv \in intervals, j \in BOOLEAN}
            \cup {noBackoff(Zero64), noBackoff(Second)}

\* strategy.waitDuration(n) is called and returns or panics; r is what the
\* random source hands to jitter
WaitDurationCall(n, r) ==
    /\ wdAttempt = 0
    /\ wdAttempt' = n
    /\ draw' = r
    /\ wdDelay' = waitDuration(strategy, n, r)
    /\ UNCHANGED strategy
    /\ UNCHANGED <<doVars, newRequestVars, rateLimitVars, responseVars, payloadVars, mockVars>>

InitBackoff ==
    /\ DoIdle
    /\ NewRequestIdle
    /\ RateLimitIdle
    /\ ResponseIdle
    /\ PayloadIdle
    /\ MockIdle
    /\ strategy \in BackoffConfigs
    /\ wdAttempt = 0
    /\ draw = "least"
    /\ wdDelay = Zero64

NextBackoff == \E n \in 1..MaxWaitAttempt, r \in Draws : WaitDurationCall(n, r)

SpecBackoff == InitBackoff /\ [][NextBackoff]_vars

(* ----------------------------- rateLimit ------------------------------- *)

\* a / b of Go on integers, b # 0: the quotient truncated toward zero
Quo(a, b) ==
    LET abs(x) == IF x < 0 THEN 0 - x ELSE x
        q == abs(a) \div abs(b)
    IN  IF (a < 0) = (b < 0) THEN q ELSE 0 - q

\* the rateLimit literal of newRateLimit: dur / time.Duration(rate) panics
\* for rate = 0, and time.NewTicker panics for an interval that is not positive
rateLimitLiteral(ra, du) ==
    IF ra = 0 THEN [panic |-> TRUE, rl |-> NoRateLimit]
    ELSE IF Quo(du, ra) <= 0 THEN [panic |-> TRUE, rl |-> NoRateLimit]
    ELSE [panic |-> FALSE,
          rl |-> [enforcedRate |-> Quo(du, ra), ticker |-> "running", ticks |-> 0]]

\* newRateLimit giving the zero value only when both arguments are not positive
newRateLimit_bothNotPositive(ra, du) ==
    IF ra <= 0 /\ du <= 0
    THEN [panic |-> FALSE, rl |-> NoRateLimit]
    ELSE rateLimitLiteral(ra, du)

\* newRateLimit(rate, dur): the rateLimit it returns, or that it panics
newRateLimit(ra, du) ==
    IF ra <= 0 \/ du <= 0
    THEN [panic |-> FALSE, rl |-> NoRateLimit]
    ELSE rateLimitLiteral(ra, du)

\* the rate limiter is constructed
NewRateLimit(ra, du) ==
    /\ rlPc = "idle"
    /\ rate' = ra
    /\ dur' = du
    /\ rl' = newRateLimit(ra, du).rl
    /\ rlPc' = IF newRateLimit(ra, du).panic THEN "panic" ELSE "built"
    /\ UNCHANGED <<limitPc, limitCtx, limitBy, limitCalls, tickTime, pending, admitted>>
    /\ UNCHANGED <<doVars, newRequestVars, backoffVars, responseVars, payloadVars, mockVars>>

\* caller c calls limit: the check of enforcedRate, then the select
limit(c) ==
    /\ rlPc = "built"
    /\ limitPc[c] \in {"idle", "returned"}
    /\ limitCalls[c] < MaxCalls
    /\ limitCalls' = [limitCalls EXCEPT ![c] = @ + 1]
    /\ IF rl.enforcedRate = 0
       THEN /\ limitPc' = [limitPc EXCEPT ![c] = "returned"]
            /\ limitBy' = [limitBy EXCEPT ![c] = "noop"]
       ELSE /\ limitPc' = [limitPc EXCEPT ![c] = "blocked"]
            /\ limitBy' = [limitBy EXCEPT ![c] = "none"]
    /\ UNCHANGED <<rate, dur, rl, rlPc, limitCtx, tickTime, pending, admitted>>
    /\ UNCHANGED <<doVars, newRequestVars, backoffVars, responseVars, payloadVars, mockVars>>

\* the select of caller c receives from rl.ticker.C
limitTickCase(c) ==
    /\ limitPc[c] = "blocked"
    /\ rl.ticks > 0
    /\ rl' = [rl EXCEPT !.ticks = @ - 1]
    /\ limitPc' = [limitPc EXCEPT ![c] = "returned"]
    /\ limitBy' = [limitBy EXCEPT ![c] = "tick"]
    /\ admitted' = Append(admitted, [caller |-> c, tick |-> pending])
    /\ pending' = 0
    /\ UNCHANGED <<rate, dur, rlPc, limitCtx, limitCalls, tickTime>>
    /\ UNCHANGED <<doVars, newRequestVars, backoffVars, responseVars, payloadVars, mockVars>>

\* the Done case of limit returning with the ticker left running
limitDoneCase_noStop(c, drained) ==
    /\ limitPc[c] = "blocked"
    /\ limitCtx[c]
    /\ limitPc' = [limitPc EXCEPT ![c] = "returned"]
    /\ limitBy' = [limitBy EXCEPT ![c] = "ctx"]
    /\ UNCHANGED <<rate, dur, rl, rlPc, limitCtx, limitCalls, tickTime, pending, admitted>>
    /\ UNCHANGED <<doVars, newRequestVars, backoffVars, responseVars, payloadVars, mockVars>>

\* the select of caller c receives from c.Done(): rl.ticker.Stop(), return.
\* drained: whether Stop leaves the ticker's channel empty (it does from
\* Go 1.23 on, earlier a tick already sent stays in the channel)
limitDoneCase(c, drained) ==
    /\ limitPc[c] = "blocked"
    /\ limitCtx[c]
    /\ rl' = [rl EXCEPT !.ticker = "stopped", !.ticks = IF drained THEN 0 ELSE @]
    /\ limitPc' = [limitPc EXCEPT ![c] = "returned"]
    /\ limitBy' = [limitBy EXCEPT ![c] = "ctx"]
    /\ pending' = IF drained THEN 0 ELSE pending
    /\ UNCHANGED <<rate, dur, rlPc, limitCtx, limitCalls, tickTime, admitted>>
    /\ UNCHANGED <<doVars, newRequestVars, backoffVars, responseVars, payloadVars, mockVars>>

\* a ticker whose channel holds every tick until it is received
Tick_accumulate ==
    /\ rlPc = "built"
    /\ rl.ticker = "running"
    /\ tickTime + rl.enforcedRate <= MaxTime
    /\ tickTime' = tickTime + rl.enforcedRate
    /\ rl' = [rl EXCEPT !.ticks = @ + 1]
    /\ pending' = IF rl.ticks = 0 THEN tickTime' ELSE pending
    /\ UNCHANGED <<rate, dur, rlPc, limitPc, limitCtx, limitBy, limitCalls, admitted>>
    /\ UNCHANGED <<doVars, newRequestVars, backoffVars, responseVars, payloadVars, mockVars>>

\* the running ticker fires, enforcedRate after it last fired: it sends a tick
\* on its channel, which holds one tick; with the channel full the tick is
\* dropped
Tick ==
    /\ rlPc = "built"
    /\ rl.ticker = "running"
    /\ tickTime + rl.enforcedRate <= MaxTime
    /\ tickTime' = tickTime + rl.enforcedRate
    /\ IF rl.ticks = 0
       THEN rl' = [rl EXCEPT !.ticks = 1] /\ pending' = tickTime'
       ELSE UNCHANGED <<rl, pending>>
    /\ UNCHANGED <<rate, dur, rlPc, limitPc, limitCtx, limitBy, limitCalls, admitted>>
    /\ UNCHANGED <<doVars, newRequestVars, backoffVars, responseVars, payloadVars, mockVars>>

\* the context caller c hands to limit is cancelled or passes its deadline
CtxDone(c) ==
    /\ rlPc = "built"
    /\ ~limitCtx[c]
    /\ limitCtx' = [limitCtx EXCEPT ![c] = TRUE]
    /\ UNCHANGED <<rate, dur, rl, rlPc, limitPc, limitBy, limitCalls,
                   tickTime, pending, admitted>>
    /\ UNCHANGED <<doVars, newRequestVars, backoffVars, responseVars, payloadVars, mockVars>>

InitRateLimit == DoIdle /\ NewRequestIdle /\ BackoffIdle /\ RateLimitIdle /\ ResponseIdle
    /\ PayloadIdle
    /\ MockIdle

NextRateLimit ==
    \/ \E ra \in (0 - 1)..MaxRate, du \in (0 - 1)..MaxDur : NewRateLimit(ra, du)
    \/ \E c \in Callers : limit(c)
    \/ \E c \in Callers : limitTickCase(c)
    \/ \E c \in Callers, drained \in BOOLEAN : limitDoneCase(c, drained)
    \/ Tick
    \/ \E c \in Callers : CtxDone(c)

SpecRateLimit == InitRateLimit /\ [][NextRateLimit]_vars

(* --------------------- Client.Do beside a rate limiter ------------------ *)

\* a program that holds a rateLimit while it calls Client.Do: the Client has
\* no field for a limiter and Do has no call of limit, so the limiter is
\* built and ticks beside the retry loop and nothing calls limit
InitClient ==
    /\ Init
    /\ ctxErr = "nil"
    /\ req.maxAttempts = 2
    /\ req.retryOnEOFError
    /\ req.afterDoFuncs = <<"AfterDo">>
    /\ req.backoffStrategy = noBackoff(Dur(2))

NextClient ==
    \/ Next
    \/ \E ra \in (0 - 1)..MaxRate, du \in (0 - 1)..MaxDur : NewRateLimit(ra, du)
    \/ Tick

SpecClient == InitClient /\ [][NextClient]_vars

(* ------------------- Response: Decode, Bytes, Close -------------------- *)

ContentTypeJSON == "application/json"

ContentTypeGob == "application/gob"

ContentTypeXML == "application/xml"

\* the Content-Type headers of the model: the three the package names and
\* one it does not
ContentTypes == {ContentTypeJSON, ContentTypeGob, ContentTypeXML, "text/plain"}

\* the DecodeFuncs: the three of the package and one of the caller's
DecodeFuncs == {"jsonDecodeFunc", "gobDecodeFunc", "xmlDecodeFunc", "customDecodeFunc"}

WithJSONBody == [name |-> "WithJSONBody", f |-> "jsonDecodeFunc"]

WithGobBody == [name |-> "WithGobBody", f |-> "gobDecodeFunc"]

WithXMLBody == [name |-> "WithXMLBody", f |-> "xmlDecodeFunc"]

WithCustomFunc(decodeFunc) == [name |-> "WithCustomFunc", f |-> decodeFunc]

WithCopiedBody == [name |-> "WithCopiedBody", f |-> "nil"]

\* a DecodeOption written by the caller that returns an error
FailingOption == [name |-> "FailingOption", f |-> "nil"]

\* the DecodeOptions of the model; WithCustomFunc is given the caller's
\* function
DecodeOptions ==
    {WithJSONBody, WithGobBody, WithXMLBody, WithCustomFunc("customDecodeFunc"),
     WithCopiedBody, FailingOption}

\* the options that select a decode function
DecoderOptions == {"WithJSONBody", "WithGobBody", "WithXMLBody", "WithCustomFunc"}

\* the decode function of the last option of os that selects one, nil if
\* none does
RECURSIVE explicitDecoder(_)
explicitDecoder(os) ==
    IF os = << >>
    THEN "nil"
    ELSE IF os[Len(os)].name \in DecoderOptions
    THEN os[Len(os)].f
    ELSE explicitDecoder(SubSeq(os, 1, Len(os) - 1))

\* whether WithCopiedBody is among os
copiedBodyAsked(os) == \E k \in 1..Len(os) : os[k].name = "WithCopiedBody"

\* n bytes of the raw body of Response r, from position from on
rawBytes(r, from, n) == [j \in 1..n |-> 10 * r + from + j]

\* the Response NewResponse returns: body is the raw stream
newResponse(ct) ==
    [contentType |-> ct, decodeFunc |-> "nil", body |-> "raw", copiedBody |-> 0,
     keepBody |-> FALSE, bodyClosed |-> FALSE, rawPos |-> 0, rawClosed |-> FALSE,
     closedBy |-> "none"]

\* resp.response.Body.Close() called by the method by; closedBy keeps the
\* first method that called it
bodyClose(resp, by) ==
    [resp EXCEPT !.rawClosed = TRUE, !.closedBy = IF @ = "none" THEN by ELSE @]

\* the part of the state a call works on: its receiver, the pool and the
\* buffers; err is what the call has run into so far, shared whether it was
\* handed, or has read or written, a buffer that is not its receiver's alone
callState(r) ==
    [id |-> r, resp |-> resps[r], pool |-> pool, bufs |-> bufs, allocated |-> allocated,
     owner |-> owner, err |-> "nil", shared |-> FALSE]

\* the call reads or writes buffer b
touch(st, b) == [st EXCEPT !.shared = @ \/ st.owner[b] # st.id]

\* bufferPool.Get() returning buffer b: one the pool holds, which leaves the
\* pool as it is, or the next one the pool's New function makes
getBuffer(st, b) ==
    IF st.pool[b] > 0
    THEN [st EXCEPT !.pool[b] = @ - 1, !.owner[b] = st.id,
                    !.shared = @ \/ st.owner[b] \notin {0, st.id}]
    ELSE IF b = st.allocated + 1
    THEN [st EXCEPT !.allocated = b, !.owner[b] = st.id]
    ELSE [st EXCEPT !.err = "invalid"]

\* putBuffer: buf.Reset(), then bufferPool.Put(buf)
putBuffer(st, b) ==
    [touch(st, b) EXCEPT !.bufs[b] = << >>, !.pool[b] = @ + 1,
                         !.owner[b] = IF @ = st.id THEN 0 ELSE @]

\* one DecodeOption run on the Response; b is the buffer getBuffer returns
executeDecodeOption(o, st, b) ==
    CASE o.name = "WithCopiedBody" ->
            LET g == getBuffer(st, b) IN
            IF g.err # "nil"
            THEN g
            ELSE [g EXCEPT !.resp.body = "tee", !.resp.copiedBody = b,
                           !.resp.keepBody = TRUE]
      [] o.name = "FailingOption" -> [st EXCEPT !.err = "option"]
      [] OTHER -> [st EXCEPT !.resp.decodeFunc = o.f]

\* the option loop of Decode from option n on: in order, up to the first error
RECURSIVE executeDecodeOptions(_, _, _, _)
executeDecodeOptions(os, gs, n, st) ==
    IF n > Len(os) \/ st.err # "nil"
    THEN st
    ELSE executeDecodeOptions(os, gs, n + 1, executeDecodeOption(os[n], st, gs[n]))

\* detectDecoder of the older response.go: the switch assigns resp.decodeFunc
\* and the function returns nil, which Decode then stores
detectDecoder_returnsNil(resp) == "nil"

\* detectDecoder guessing JSON when the header is none of the three
detectDecoder_guessJSON(resp) ==
    CASE resp.contentType = ContentTypeGob -> "gobDecodeFunc"
      [] resp.contentType = ContentTypeXML -> "xmlDecodeFunc"
      [] OTHER -> "jsonDecodeFunc"

\* detectDecoder: the decoder for the Content-Type header, nil if it is none
\* of the three
detectDecoder(resp) ==
    CASE resp.contentType = ContentTypeJSON -> "jsonDecodeFunc"
      [] resp.contentType = ContentTypeGob -> "gobDecodeFunc"
      [] resp.contentType = ContentTypeXML -> "xmlDecodeFunc"
      [] OTHER -> "nil"

\* Decode detecting the decoder whatever the options selected
selectDecoder_alwaysDetect(resp) == [resp EXCEPT !.decodeFunc = detectDecoder(resp)]

\* Decode after the options: the decoder is detected if none is selected
selectDecoder(resp) ==
    IF resp.decodeFunc = "nil"
    THEN [resp EXCEPT !.decodeFunc = detectDecoder(resp)]
    ELSE resp

\* the record of one call
call(op, r, os, pre, invoked, consumed, e, sh) ==
    [op |-> op, r |-> r, explicit |-> explicitDecoder(os), copied |-> copiedBodyAsked(os),
     pre |-> pre, invoked |-> invoked, consumed |-> consumed, err |-> e, shared |-> sh]

\* NewResponse builds the next Response around a transport response whose
\* Content-Type header is ct
ResponseBuilt(ct) ==
    /\ nresp < NumResponses
    /\ nresp' = nresp + 1
    /\ resps' = [resps EXCEPT ![nresp + 1] = newResponse(ct)]
    /\ UNCHANGED <<pool, bufs, allocated, owner, lastCall, closed, ops>>
    /\ UNCHANGED <<doVars, newRequestVars, backoffVars, rateLimitVars, payloadVars, mockVars>>

\* resp.Decode(c, v, os...) on Response r. gs: the buffer getBuffer returns to
\* each option; n: how many bytes the decode function reads from resp.body;
\* ok: whether the decode function returns nil
Decode(r, os, gs, n, ok) ==
    /\ r <= nresp
    /\ LET st == executeDecodeOptions(os, gs, 1, callState(r))
           resp == selectDecoder(st.resp)
           f == resp.decodeFunc
           avail == IF resp.rawClosed THEN 0 ELSE BodyLen - resp.rawPos
           consumed == rawBytes(r, resp.rawPos, n)
       IN
       /\ st.err # "invalid"
       /\ pool' = st.pool
       /\ allocated' = st.allocated
       /\ owner' = st.owner
       /\ IF st.err # "nil"
          THEN /\ n = 0 /\ ~ok
               /\ resps' = [resps EXCEPT ![r] = st.resp]
               /\ bufs' = st.bufs
               /\ lastCall' = call("Decode", r, os, resps[r].decodeFunc, "nil", << >>, st.err,
                                   st.shared)
          ELSE IF f = "nil"
          THEN /\ n = 0 /\ ~ok
               /\ resps' = [resps EXCEPT ![r] = bodyClose(resp, "Decode")]
               /\ bufs' = st.bufs
               /\ lastCall' = call("Decode", r, os, resps[r].decodeFunc, "nil", << >>,
                                   "no valid decoder specified", st.shared)
          ELSE /\ n <= avail
               /\ resp.rawClosed => ~ok
               /\ resps' = [resps EXCEPT ![r] =
                               bodyClose([resp EXCEPT !.rawPos = @ + n], "Decode")]
               /\ bufs' = IF resp.body = "tee"
                          THEN [st.bufs EXCEPT ![resp.copiedBody] = @ \o consumed]
                          ELSE st.bufs
               /\ lastCall' = call("Decode", r, os, resps[r].decodeFunc, f, consumed,
                                   IF ok THEN "nil" ELSE "decode",
                                   IF resp.body = "tee" /\ n > 0
                                   THEN touch(st, resp.copiedBody).shared
                                   ELSE st.shared)
    /\ ops' = ops + 1
    /\ closed' = [closed EXCEPT ![r] = << >>]
    /\ UNCHANGED nresp
    /\ UNCHANGED <<doVars, newRequestVars, backoffVars, rateLimitVars, payloadVars, mockVars>>

\* what response.Body.Close() returns
CloseResults == {"nil", "EOF", "Other"}

\* resp.Bytes() on Response r. b: the buffer getBuffer returns; ce: what
\* response.Body.Close() returns
ResponseBytes(r, b, ce) ==
    /\ r <= nresp
    /\ LET resp == resps[r]
           st == getBuffer(callState(r), b)
           n == IF resp.rawClosed THEN 0 ELSE BodyLen - resp.rawPos
           read == rawBytes(r, resp.rawPos, n)
       IN
       IF resp.copiedBody # 0
       THEN /\ b = 1 /\ ce = "nil"
            /\ lastCall' = call("Bytes", r, << >>, resp.decodeFunc, "nil",
                                bufs[resp.copiedBody], "nil",
                                touch(callState(r), resp.copiedBody).shared)
            /\ UNCHANGED <<resps, pool, bufs, allocated, owner>>
       ELSE /\ st.err = "nil"
            /\ pool' = st.pool
            /\ allocated' = st.allocated
            /\ owner' = st.owner
            /\ bufs' = [st.bufs EXCEPT ![b] = @ \o read]
            /\ IF ce # "nil"
               THEN /\ resps' = [resps EXCEPT ![r] =
                                    bodyClose([resp EXCEPT !.rawPos = @ + n], "Bytes")]
                    /\ lastCall' = call("Bytes", r, << >>, resp.decodeFunc, "nil", << >>, ce,
                                        st.shared)
               ELSE /\ resps' = [resps EXCEPT ![r] =
                                    bodyClose([resp EXCEPT !.rawPos = @ + n,
                                                           !.bodyClosed = TRUE,
                                                           !.copiedBody = b], "Bytes")]
                    /\ lastCall' = call("Bytes", r, << >>, resp.decodeFunc, "nil",
                                        bufs'[b], "nil", st.shared)
    /\ ops' = ops + 1
    /\ closed' = [closed EXCEPT ![r] = << >>]
    /\ UNCHANGED nresp
    /\ UNCHANGED <<doVars, newRequestVars, backoffVars, rateLimitVars, payloadVars, mockVars>>

\* what resp.Body() reads from: the copy if one is kept, else what is left
\* of the raw stream
Body(r) ==
    IF resps[r].keepBody /\ resps[r].copiedBody # 0
    THEN bufs[resps[r].copiedBody]
    ELSE rawBytes(r, resps[r].rawPos,
                  IF resps[r].rawClosed THEN 0 ELSE BodyLen - resps[r].rawPos)

\* resp.Close() on Response r: the kept copy goes to putBuffer, then the raw
\* body is closed unless Bytes has closed it. ce: what response.Body.Close()
\* returns
Close(r, ce) ==
    /\ r <= nresp
    /\ LET resp == resps[r]
           put == resp.keepBody /\ resp.copiedBody # 0
           st == IF put THEN putBuffer(callState(r), resp.copiedBody) ELSE callState(r)
           e == IF resp.bodyClosed \/ ce = "EOF" THEN "nil" ELSE ce
       IN
       /\ resp.bodyClosed => ce = "nil"
       /\ pool' = st.pool
       /\ bufs' = st.bufs
       /\ owner' = st.owner
       /\ resps' = [resps EXCEPT ![r] =
                       IF resp.bodyClosed THEN resp ELSE bodyClose(resp, "Close")]
       /\ closed' = [closed EXCEPT ![r] =
                        Append(@, [err |-> e, put |-> IF put THEN resp.copiedBody ELSE 0,
                                   raw |-> ~resp.bodyClosed, ce |-> ce])]
       /\ lastCall' = call("Close", r, << >>, resp.decodeFunc, "nil", << >>, e, st.shared)
    /\ ops' = ops + 1
    /\ UNCHANGED <<nresp, allocated>>
    /\ UNCHANGED <<doVars, newRequestVars, backoffVars, rateLimitVars, payloadVars, mockVars>>

\* the buffers getBuffer may return to the options os, one for each option
\* that calls it
bufferChoices(os) ==
    {gs \in [1..Len(os) -> Buffers] :
        \A k \in 1..Len(os) : os[k].name # "WithCopiedBody" => gs[k] = 1}

\* one Response, with any of the options and headers
InitResponse == DoIdle /\ NewRequestIdle /\ BackoffIdle /\ RateLimitIdle /\ ResponseIdle
    /\ PayloadIdle
    /\ MockIdle

NextResponse ==
    \/ \E ct \in ContentTypes : nresp = 0 /\ ResponseBuilt(ct)
    \/ \E os \in SeqUpTo(DecodeOptions, MaxDecodeOpts) :
         \E gs \in bufferChoices(os), n \in 0..BodyLen, ok \in BOOLEAN :
            ops < MaxResponseOps /\ Decode(1, os, gs, n, ok)
    \/ \E b \in Buffers, ce \in CloseResults :
            ops < MaxResponseOps /\ ResponseBytes(1, b, ce)
    \/ \E ce \in CloseResults : ops < MaxResponseOps /\ Close(1, ce)

SpecResponse == InitResponse /\ [][NextResponse]_vars

\* NumResponses Responses of one Content-Type that share the pool, decoded
\* with and without WithCopiedBody
NextPool ==
    \/ ResponseBuilt(ContentTypeJSON)
    \/ \E r \in Responses, os \in SeqUpTo({WithCopiedBody}, 1) :
         \E gs \in bufferChoices(os), n \in 0..BodyLen :
            ops < MaxPoolOps /\ Decode(r, os, gs, n, TRUE)
    \/ \E r \in Responses, b \in Buffers : ops < MaxPoolOps /\ ResponseBytes(r, b, "nil")
    \/ \E r \in Responses : ops < MaxPoolOps /\ Close(r, "nil")

SpecPool == InitResponse /\ [][NextPool]_vars

(* ------------- the payload: pooled buffer and multipart pipe ------------ *)

\* the stages of the encoder at which it writes into the pipe
WriteStages == {"CreateFormFile", "Copy", "Close"}

\* the stage that follows a write the reader has taken; after mpw.Close the
\* goroutine returns and its deferred pipeWriter.Close() runs
afterWrite(stage) ==
    CASE stage = "CreateFormFile" -> "Copy"
      [] stage = "Copy" -> "Close"
      [] stage = "Close" -> "exited"

\* NewRequest with WithJSONPayload(v), v not nil and encodable: the option
\* takes a buffer from the pool, encodes v into it and makes it req.payload
WithJSONPayload ==
    /\ newRequestPc = "idle"
    /\ payload' = "buffer"
    /\ newRequestPc' = "returned"
    /\ UNCHANGED <<encPc, pipe, consumedBy>>
    /\ UNCHANGED <<doVars, newRequestVars, backoffVars, rateLimitVars, responseVars, mockVars>>

\* NewRequest with nfields WithReaderMultipartField options followed by
\* WithReaderMultipartPayload: multipartPayload makes the pipe and writes the
\* fields into it from the calling thread, while the read end is known to
\* multipartPayload alone; with no field it sets req.payload to the read end,
\* starts the encoder goroutine and returns, and NewRequest returns
multipartPayload(nfields) ==
    /\ newRequestPc = "idle"
    /\ pipe' = "open"
    /\ req' = [req EXCEPT !.optMultiPartForm = TRUE]
    /\ IF nfields > 0
       THEN /\ newRequestPc' = "WriteField"
            /\ UNCHANGED <<payload, encPc>>
       ELSE /\ newRequestPc' = "returned"
            /\ payload' = "pipe"
            /\ encPc' = "CreateFormFile"
    /\ UNCHANGED consumedBy
    /\ UNCHANGED <<ctxErr, cErr, pc, i, attempts, httpResp, err, outcomes,
                   bodies, waited, sel, called, result>>
    /\ UNCHANGED <<newRequestVars, backoffVars, rateLimitVars, responseVars, mockVars>>

\* the transport call in flight reads from req.payload, which it was handed
\* as the Body of the same http.Request on every attempt: the next unread
\* byte of the buffer, or from the pipe the write the multipart code is
\* blocked in (a write into an io.Pipe returns when a reader has taken it)
TransportRead ==
    /\ pc = "inflight"
    /\ \/ /\ payload = "buffer"
          /\ \E p \in 1..PayloadLen :
                /\ consumedBy[p] = 0
                /\ \A q \in 1..(p - 1) : consumedBy[q] # 0
                /\ consumedBy' = [consumedBy EXCEPT ![p] = attempts]
          /\ UNCHANGED <<payload, newRequestPc, encPc, pipe>>
       \/ /\ payload = "pipe"
          /\ pipe = "open"
          /\ encPc \in WriteStages
          /\ encPc' = afterWrite(encPc)
          /\ pipe' = IF encPc = "Close" THEN "writerClosed" ELSE pipe
          /\ UNCHANGED <<payload, newRequestPc, consumedBy>>
    /\ UNCHANGED <<doVars, newRequestVars, backoffVars, rateLimitVars, responseVars, mockVars>>

\* the transport closes the Body of the http.Request, as a RoundTripper must,
\* during the call or after it has returned: the read end of the pipe closes
TransportCloseBody ==
    /\ attempts >= 1
    /\ payload = "pipe"
    /\ pipe = "open"
    /\ pipe' = "readerClosed"
    /\ UNCHANGED <<payload, newRequestPc, encPc, consumedBy>>
    /\ UNCHANGED <<doVars, newRequestVars, backoffVars, rateLimitVars, responseVars, mockVars>>

\* the encoder's write fails because the read end is closed: the goroutine
\* stores the error in req.multiPartFormErr and returns
EncoderWriteFails ==
    /\ encPc \in WriteStages
    /\ pipe = "readerClosed"
    /\ encPc' = "exited"
    /\ req' = [req EXCEPT !.multiPartFormErr = "ClosedPipe"]
    /\ UNCHANGED <<payload, newRequestPc, pipe, consumedBy>>
    /\ UNCHANGED <<ctxErr, cErr, pc, i, attempts, httpResp, err, outcomes,
                   bodies, waited, sel, called, result>>
    /\ UNCHANGED <<newRequestVars, backoffVars, rateLimitVars, responseVars, mockVars>>

\* io.Copy gets an error from the data reader: the goroutine stores it in
\* req.multiPartFormErr and returns, and pipeWriter.Close() runs
DataReadFails ==
    /\ encPc = "Copy"
    /\ encPc' = "exited"
    /\ pipe' = IF pipe = "open" THEN "writerClosed" ELSE pipe
    /\ req' = [req EXCEPT !.multiPartFormErr = "DataRead"]
    /\ UNCHANGED <<payload, newRequestPc, consumedBy>>
    /\ UNCHANGED <<ctxErr, cErr, pc, i, attempts, httpResp, err, outcomes,
                   bodies, waited, sel, called, result>>
    /\ UNCHANGED <<newRequestVars, backoffVars, rateLimitVars, responseVars, mockVars>>

\* a Request about to be built with a payload: two attempts, io.EOF retried,
\* no deadline, no callback, a fixed delay between attempts
InitPayload ==
    /\ NewRequestIdle
    /\ BackoffIdle
    /\ RateLimitIdle
    /\ ResponseIdle
    /\ MockIdle
    /\ req = [maxAttempts |-> 2, retryOnEOFError |-> TRUE,
              optMultiPartForm |-> FALSE, multiPartFormErr |-> "nil",
              afterDoFuncs |-> << >>, deadline |-> FALSE,
              backoffStrategy |-> noBackoff(Dur(2))]
    /\ ctxErr = "nil"
    /\ cErr = "nil"
    /\ pc = "idle"
    /\ i = 0
    /\ attempts = 0
    /\ httpResp = NoResp
    /\ err = "nil"
    /\ outcomes = << >>
    /\ bodies = [n \in 1..MaxAttemptsBound |-> "none"]
    /\ waited = {}
    /\ sel = "none"
    /\ called = << >>
    /\ result = NoResult
    /\ payload = "nil"
    /\ newRequestPc = "idle"
    /\ encPc = "none"
    /\ pipe = "none"
    /\ consumedBy = [p \in 1..PayloadLen |-> 0]

\* the caller has req only when NewRequest has returned it
NextPayload ==
    \/ WithJSONPayload
    \/ \E nfields \in 0..MaxFields : multipartPayload(nfields)
    \/ newRequestPc = "returned" /\ DoEnter
    \/ \E o \in Outcomes, closeErr \in BOOLEAN, r \in Draws :
            TransportReturn(o, closeErr, r)
    \/ TimerFire
    \/ waitForRetry
    \/ \E e \in CtxErrors : newRequestPc = "returned" /\ Cancel(e)
    \/ TransportRead
    \/ TransportCloseBody
    \/ EncoderWriteFails
    \/ DataReadFails

SpecPayload == InitPayload /\ [][NextPayload]_vars

(* ----------------------------- fetchermock ----------------------------- *)

\* ioutil.ReadAll(payload): the bytes left unread, and the reader at its end
ReadAll(pl) == [read |-> pl.unread, payload |-> [pl EXCEPT !.unread = << >>]]

\* the first index of the header loop of Equal that stops it: an index
\* reqComp.headers does not have, or one where the headers differ; 0 if none
firstHeaderStop(receiver, reqComp) ==
    LET stops == {k \in 1..Len(receiver.headers) :
                     k > Len(reqComp.headers)
                        \/ receiver.headers[k] # reqComp.headers[k]}
    IN  IF stops = {} THEN 0 ELSE CHOOSE k \in stops : \A j \in stops : k <= j

\* req.Equal(reqComp): whether it panics (reqComp.headers indexed past its
\* end), the answer, and the two requests as the call leaves them
Equal(receiver, reqComp) ==
    LET stop == firstHeaderStop(receiver, reqComp)
        same == [panic |-> FALSE, equal |-> FALSE, req |-> receiver, reqComp |-> reqComp]
    IN  IF receiver.url # reqComp.url THEN same
        ELSE IF receiver.maxAttempts # reqComp.maxAttempts THEN same
        ELSE IF stop # 0 /\ stop > Len(reqComp.headers) THEN [same EXCEPT !.panic = TRUE]
        ELSE IF stop # 0 THEN same
        ELSE IF ~receiver.payload.isNil /\ ~reqComp.payload.isNil
        THEN LET reqBody == ReadAll(receiver.payload)
                 reqCompBody == ReadAll(reqComp.payload)
             IN  [panic |-> FALSE,
                  equal |-> reqBody.read = reqCompBody.read,
                  req |-> [receiver EXCEPT !.payload = reqBody.payload],
                  reqComp |-> [reqComp EXCEPT !.payload = reqCompBody.payload]]
        ELSE [same EXCEPT !.equal = TRUE]

\* mockHTTPResponse(c, expReq): the body and the headers are taken from the
\* ExpectedRequest, StatusCode is left at its zero value
mockHTTPResponse(expReq) == [StatusCode |-> 0, Body |-> expReq.responseBody]

\* the loop of the mock's Do from index k on: the expectations and the
\* request as the comparisons leave them, the index it matched (0 if none)
\* and how the loop ended
RECURSIVE findExpected(_, _, _, _)
findExpected(exps, rq, k, inOrder) ==
    IF k > Len(exps)
    THEN [exps |-> exps, req |-> rq, metIdx |-> 0, how |-> "unmatched"]
    ELSE IF exps[k].wasMet
    THEN findExpected(exps, rq, k + 1, inOrder)
    ELSE LET eq == Equal(exps[k].request, rq)
             compared == [exps EXCEPT ![k].request = eq.req, ![k].wasMet = eq.equal]
         IN  IF eq.panic
             THEN [exps |-> exps, req |-> rq, metIdx |-> 0, how |-> "panic"]
             ELSE IF eq.equal
             THEN [exps |-> compared, req |-> eq.reqComp, metIdx |-> k, how |-> "met"]
             ELSE IF inOrder
             THEN [exps |-> compared, req |-> eq.reqComp, metIdx |-> 0,
                   how |-> "notInOrder"]
             ELSE findExpected(compared, eq.reqComp, k + 1, inOrder)

\* the requests of the model: one method and url, maxAttempts 1, no header
\* or one, no payload or a payload of one byte
MockRequests ==
    {MockRequest("u", 1, hs, pl[1], pl[2]) :
        hs \in SeqUpTo({"h"}, 1), pl \in {<<TRUE, << >> >>, <<FALSE, <<1>> >>, <<FALSE, <<2>> >>}}

\* what an expectation is configured to return: WithResponseError(err),
\* WithResponseStatusCode(code), WithResponseBodyBytes(body)
MockOutcomes ==
    {[err |-> "nil", code |-> 200, body |-> 1],
     [err |-> "nil", code |-> 404, body |-> 2],
     [err |-> "Configured", code |-> 0, body |-> 0]}

\* cl.ExpectRequest(c, method, url, opts...): the request built from the
\* options, the response built by mockHTTPResponse, appended unmet
ExpectRequest(rq, out) ==
    /\ mockPc = "ready"
    /\ mockCalls = 0
    /\ Len(expectedRequests) < MaxExpectations
    /\ LET expReq == [request |-> rq, built |-> rq, err |-> out.err,
                      responseStatusCode |-> out.code, responseBody |-> out.body,
                      wasMet |-> FALSE]
       IN  expectedRequests' =
               Append(expectedRequests,
                      [request |-> rq, built |-> rq, err |-> out.err,
                       responseStatusCode |-> out.code, responseBody |-> out.body,
                       response |-> mockHTTPResponse(expReq), wasMet |-> FALSE])
    /\ UNCHANGED <<withExpectationsInOrder, mockPc, lastDo, metBy, mockCalls>>
    /\ UNCHANGED <<doVars, newRequestVars, backoffVars, rateLimitVars, responseVars,
                   payloadVars>>

\* the unmet expectations whose request, as built, equals rq as passed
equalUnmet(exps, rq) ==
    {k \in 1..Len(exps) :
        /\ ~exps[k].wasMet
        /\ Equal(exps[k].built, rq).equal}

\* the mock's cl.Do(c, req) with a request rq just built: the context check,
\* the search for an expectation, and the response of the one it met
MockDo(ctxDone, rq) ==
    /\ mockPc = "ready"
    /\ mockCalls < MaxMockCalls
    /\ mockCalls' = mockCalls + 1
    /\ IF ctxDone
       THEN /\ lastDo' = [NoDo EXCEPT !.ctxDone = TRUE, !.passed = rq, !.left = rq,
                                       !.err = "Canceled"]
            /\ UNCHANGED <<expectedRequests, mockPc, metBy>>
       ELSE LET found == findExpected(expectedRequests, rq, 1, withExpectationsInOrder)
                k == found.metIdx
            IN  /\ expectedRequests' = found.exps
                /\ mockPc' = IF found.how = "panic" THEN "panic" ELSE mockPc
                /\ metBy' = IF k = 0 THEN metBy ELSE [metBy EXCEPT ![k] = @ + 1]
                /\ lastDo' =
                      [ctxDone |-> FALSE, passed |-> rq, left |-> found.req,
                       equalUnmet |-> equalUnmet(expectedRequests, rq),
                       metIdx |-> k,
                       err |-> IF k = 0 THEN found.how ELSE "nil",
                       statusCode |-> IF k = 0 THEN 0
                                      ELSE expectedRequests[k].response.StatusCode,
                       body |-> IF k = 0 THEN 0 ELSE expectedRequests[k].response.Body]
    /\ UNCHANGED withExpectationsInOrder
    /\ UNCHANGED <<doVars, newRequestVars, backoffVars, rateLimitVars, responseVars,
                   payloadVars>>

\* NewClient, with or without WithExpectationsInOrder(false)
InitMock ==
    /\ DoIdle /\ NewRequestIdle /\ BackoffIdle /\ RateLimitIdle /\ ResponseIdle
    /\ PayloadIdle
    /\ expectedRequests = << >>
    /\ withExpectationsInOrder \in BOOLEAN
    /\ mockPc = "ready"
    /\ lastDo = NoDo
    /\ metBy = [k \in 1..MaxExpectations |-> 0]
    /\ mockCalls = 0

NextMock ==
    \/ \E rq \in MockRequests, out \in MockOutcomes : ExpectRequest(rq, out)
    \/ \E ctxDone \in BOOLEAN, rq \in MockRequests : MockDo(ctxDone, rq)

SpecMock == InitMock /\ [][NextMock]_vars

(* ------------------------- vocabulary of the properties ---------------- *)

\* the retryable set: connection reset by peer, and io.EOF when
\* WithRetryOnEOFError was given
Retryable(r, e) == e = "ConnReset" \/ (e = "EOF" /\ r.retryOnEOFError)

Last == outcomes[Len(outcomes)]

\* the transport answered every attempt so far with a status >= 500
All5xx == \A n \in 1..Len(outcomes) : outcomes[n].err = "nil" /\ outcomes[n].resp.status >= 500

\* every attempt so far failed with a retryable transport error
AllRetryableErr == \A n \in 1..Len(outcomes) : Retryable(req, outcomes[n].err)

\* neither the caller's context nor the deadline context was done before Do returned
NeverCancelled == ctxErr = "nil" /\ cErr # "DeadlineExceeded"

\* the loop found a multipart encoder failure when attempt 1 completed
FormErrAtFirst == req.optMultiPartForm /\ Len(outcomes) >= 1 /\ outcomes[1].formErr # "nil"

\* a terminal condition has been reached: a status < 500, an error outside
\* the retryable set, or a cancellation seen by Do or by the backoff wait
TerminalReached ==
    \/ /\ Len(outcomes) > 0
       /\ \/ Last.err = "nil" /\ Last.resp.status < 500
          \/ Last.err # "nil" /\ ~Retryable(req, Last.err)
    \/ sel = "ctx"
    \/ pc = "done"

(* ------------------------------ claims --------------------------------- *)

\* C1: one call of Do makes at most req.maxAttempts physical transport calls,
\* and makes none once a terminal condition (status < 500, non-retryable
\* error, cancellation) has been reached.
C1_AtMostMaxAttempts ==
    /\ [](attempts <= req.maxAttempts)
    /\ [][TerminalReached => attempts' = attempts]_vars

C1_Witness ==
    /\ pc = "done"
    /\ req.maxAttempts >= 2
    /\ attempts = req.maxAttempts
    /\ Last.err = "nil" /\ Last.resp.status >= 500

C3_Original ==
    (pc = "done" /\ Len(outcomes) > 0 /\ Last.err = "nil" /\ Last.resp.status < 500) =>
        /\ attempts = Len(outcomes)
        /\ result.err = "nil"
        /\ result.resp.response = Last.resp

\* C3 amended: the first attempt k answered with a status < 500 ends the loop
\* after exactly k attempts; Do returns the multipart encoder failure if k = 1
\* and the loop finds one, otherwise the error of the first afterDo callback
\* that fails, otherwise that attempt's response with a nil error.
C3_FirstNon5xxEndsLoop ==
    (pc = "done" /\ Len(outcomes) > 0 /\ Last.err = "nil" /\ Last.resp.status < 500) =>
        /\ attempts = Len(outcomes)
        /\ Last.resp.attempt = attempts
        /\ \A n \in 1..(attempts - 1) :
              outcomes[n].err # "nil" \/ outcomes[n].resp.status >= 500
        /\ IF attempts = 1 /\ FormErrAtFirst
           THEN result = [resp |-> NilResponse, err |-> "MultiPartForm"]
           ELSE IF FirstFail(req.afterDoFuncs) # 0
           THEN result = [resp |-> NilResponse,
                          err |-> req.afterDoFuncs[FirstFail(req.afterDoFuncs)]]
           ELSE result = [resp |-> NewResponse(req, Last.resp), err |-> "nil"]

C3_Witness ==
    /\ pc = "done"
    /\ req.maxAttempts = 3
    /\ attempts = 2
    /\ outcomes[1].err = "nil" /\ outcomes[1].resp.status = 503
    /\ outcomes[2].err = "nil" /\ outcomes[2].resp.status = 200
    /\ result.err = "nil"
    /\ result.resp.response = Resp(2, 200)

\* C4: a transport error outside the retryable set makes Do return that error
\* at once, with no response, no backoff wait and no further attempt,
\* whatever attempt budget remains.
C4_BreakingErrorReturnsAtOnce ==
    (Len(outcomes) > 0 /\ Last.err # "nil" /\ ~Retryable(req, Last.err)) =>
        /\ pc = "done"
        /\ result = [resp |-> NilResponse, err |-> Last.err]
        /\ attempts = Len(outcomes)
        /\ Len(outcomes) \notin waited

C4_Witness ==
    /\ pc = "done"
    /\ Len(outcomes) = 1
    /\ req.maxAttempts >= 2
    /\ Last.err = "EOF" /\ ~req.retryOnEOFError
    /\ result.err = "EOF"

\* C5 as stated (the multipart failure of attempt 1 left aside): after a
\* retryable transport error on an attempt that is not the last one, the loop
\* waits the backoff delay and goes on to the next attempt; only a
\* cancellation during the wait ends it.
C5_RetryableErrorIsRetried ==
    (/\ Len(outcomes) > 0 /\ Retryable(req, Last.err)
     /\ Len(outcomes) < req.maxAttempts
     /\ ~FormErrAtFirst) =>
        \/ pc = "waiting"
        \/ pc = "inflight" /\ attempts = Len(outcomes) + 1
        \/ pc = "done" /\ sel = "ctx"

\* C6 as stated (the multipart failure of attempt 1 left aside): when every
\* one of the maxAttempts attempts failed with a retryable transport error, Do
\* has returned the error of the last attempt and no response.
C6_ExhaustedRetryableError ==
    (/\ pc \in {"done", "panic"}
     /\ Len(outcomes) = req.maxAttempts
     /\ AllRetryableErr
     /\ ~FormErrAtFirst) =>
        /\ pc = "done"
        /\ result = [resp |-> NilResponse, err |-> Last.err]

\* C7: if the caller's context is already done when Do is called, Do returns
\* the context's error with no response and makes no physical attempt.
C7_DoneContextAtEntry ==
    /\ [][(pc = "idle" /\ pc' # "idle" /\ ctxErr # "nil") =>
            /\ pc' = "done"
            /\ result' = [resp |-> NilResponse, err |-> ctxErr]
            /\ attempts' = 0]_vars
    /\ [][pc = "done" => (attempts' = attempts /\ result' = result)]_vars

C7_Witness ==
    /\ pc = "done"
    /\ attempts = 0
    /\ result.resp = NilResponse
    /\ result.err \in CtxErrors

\* C8: when the context becomes done during a backoff wait, Do returns the
\* context's error and no response, and no physical attempt follows the wait.
C8_CancelDuringBackoff ==
    sel = "ctx" =>
        \/ pc = "waiting" /\ attempts = i
        \/ /\ pc = "done"
           /\ cErr \in CtxErrors
           /\ result = [resp |-> NilResponse, err |-> cErr]
           /\ attempts = i
           /\ Len(outcomes) = i
           /\ i \notin waited

C8_Witness ==
    /\ pc = "done"
    /\ sel = "ctx"
    /\ Last.err = "nil" /\ Last.resp.status >= 500
    /\ attempts < req.maxAttempts
    /\ result.err \in CtxErrors

\* C9: attempt N+1 starts only after attempt N has returned, the body of
\* attempt N's response (if there is one) has been closed, and the backoff
\* wait after attempt N has run to its end.
C9_SequentialAttempts ==
    \A n \in 1..(attempts - 1) :
        /\ n <= Len(outcomes)
        /\ outcomes[n].resp # NoResp => bodies[n] = "closed"
        /\ n \in waited

C9_Witness ==
    /\ pc = "inflight"
    /\ attempts = 2
    /\ outcomes[1].resp # NoResp
    /\ bodies[1] = "closed"
    /\ 1 \in waited

\* C10: a call of Do that returns hands back either a Response wrapping a
\* transport response together with a nil error, or no Response together with
\* an error; never both, never neither.
C10_ExactlyOneOutcome ==
    pc = "done" =>
        \/ /\ result.resp # NilResponse
           /\ result.resp.response # NoResp
           /\ result.err = "nil"
        \/ /\ result.resp = NilResponse
           /\ result.err \notin {"nil", "none"}

C10_Witness ==
    /\ pc = "done"
    /\ FirstFail(req.afterDoFuncs) = 0
    /\ Len(req.afterDoFuncs) > 0
    /\ result.err = "nil"
    /\ result.resp.response.status >= 500

\* the retry loop handed a response back to Do
LoopYieldsResponse ==
    /\ pc = "done"
    /\ Len(outcomes) > 0
    /\ Last.err = "nil"
    /\ ~(Len(outcomes) = 1 /\ FormErrAtFirst)
    /\ Last.resp.status < 500 \/ Len(outcomes) = req.maxAttempts

\* C11 as stated: when Do has returned, every response body received from
\* the transport has been closed or belongs to the Response Do returned.
C11_NoBodyLeftOpen ==
    pc = "done" =>
        \A n \in 1..MaxAttemptsBound :
            bodies[n] = "open" => (result.resp # NilResponse /\ result.resp.body = n)

\* C12: when the loop yields a response, Do invokes the afterDo callbacks in
\* registration order with that response, stops at the first that returns an
\* error and returns that error; when the loop ends with an error no
\* callback is invoked.
C12_AfterDoCallbacks ==
    pc = "done" =>
        IF LoopYieldsResponse
        THEN LET ff == FirstFail(req.afterDoFuncs)
                 n  == IF ff = 0 THEN Len(req.afterDoFuncs) ELSE ff
             IN  /\ Len(called) = n
                 /\ \A k \in 1..n : called[k] = [fn |-> k, resp |-> Last.resp]
                 /\ \A k \in 1..(n - 1) : req.afterDoFuncs[k] = "nil"
                 /\ ff # 0 => result = [resp |-> NilResponse, err |-> req.afterDoFuncs[ff]]
                 /\ ff = 0 => result.err = "nil"
        ELSE called = << >>

C12_Witness ==
    /\ pc = "done"
    /\ LoopYieldsResponse
    /\ Last.resp.status >= 500
    /\ Len(req.afterDoFuncs) = 2
    /\ req.afterDoFuncs[1] = "AfterDo"
    /\ Len(called) = 1
    /\ result.err = "AfterDo"

\* C13 as stated: when the loop finds the multipart encoder failure after
\* attempt 1, Do returns that failure after this one attempt, whether the
\* attempt ended with a status or with a retryable transport error.
C13_MultipartFailureReturned ==
    (/\ FormErrAtFirst
     /\ outcomes[1].err = "nil" \/ Retryable(req, outcomes[1].err)) =>
        /\ pc = "done"
        /\ attempts = 1
        /\ result = [resp |-> NilResponse, err |-> "MultiPartForm"]

MaxAttemptsOptions == {k \in 1..Len(opts) : opts[k].name = "WithMaxAttempts"}

\* C15: every Request NewRequest builds has maxAttempts >= 1: exactly 1 when
\* no WithMaxAttempts option was given, else max(1, n) for the n of the last
\* WithMaxAttempts option; the same holds while the options are executed.
C15_MaxAttemptsAtLeastOne ==
    /\ newPc \in {"options", "built"} => newReq.maxAttempts >= 1
    /\ newPc = "built" =>
        IF MaxAttemptsOptions = {}
        THEN newReq.maxAttempts = 1
        ELSE LET last == CHOOSE k \in MaxAttemptsOptions :
                            \A j \in MaxAttemptsOptions : j <= k
                 n == opts[last].n
             IN  newReq.maxAttempts = IF n >= 1 THEN n ELSE 1

C15_Witness ==
    /\ newPc = "built"
    /\ Len(opts) >= 2
    /\ opts[1] = [name |-> "WithMaxAttempts", n |-> MaxAttemptsBound]
    /\ opts[Len(opts)] = [name |-> "WithMaxAttempts", n |-> 0 - 1]
    /\ newReq.maxAttempts = 1

\* cur doubled n times, stopping at max as soon as a doubling would pass it:
\* cur * 2^n clamped from above to max, for 0 < cur <= max
RECURSIVE DoubledUpTo(_, _, _)
DoubledUpTo(cur, max, n) ==
    IF n = 0 THEN cur
    ELSE IF Less64(Sub64(max, cur), cur) THEN max
    ELSE DoubledUpTo(Add64(cur, cur), max, n - 1)

\* cur raised n times by interval, stopping at max as soon as a step would
\* pass it: cur + interval * n clamped from above to max, for cur <= max
RECURSIVE RaisedUpTo(_, _, _, _)
RaisedUpTo(cur, max, interval, n) ==
    IF n = 0 THEN cur
    ELSE IF Less64(Sub64(max, cur), interval) THEN max
    ELSE RaisedUpTo(Add64(cur, interval), max, interval, n - 1)

\* a call of waitDuration has been made
WaitDurationCalled == wdAttempt >= 1

\* C16 as stated: exponentialBackoff.waitDuration(attempt) without jitter is
\* min * 2^(attempt-1) clamped to [min, max], for every attempt >= 1.
C16_ExponentialDelay ==
    (WaitDurationCalled /\ strategy.kind = "exponential" /\ ~strategy.useJitter) =>
        wdDelay = DoubledUpTo(strategy.min, strategy.max, wdAttempt - 1)

\* C17 as stated: linearBackoff.waitDuration(attempt) without jitter is
\* min + interval * (attempt-1) clamped to [min, max], for every attempt >= 1.
C17_LinearDelay ==
    (WaitDurationCalled /\ strategy.kind = "linear" /\ ~strategy.useJitter) =>
        wdDelay = RaisedUpTo(strategy.min, strategy.max, strategy.interval,
                             wdAttempt - 1)

\* C18 as stated: the jittered linear and exponential waitDuration always
\* return, and what they return lies in [min, max], whatever the draw.
C18_JitterWithinBounds ==
    (WaitDurationCalled /\ strategy.kind # "none" /\ strategy.useJitter) =>
        /\ wdDelay # Panicked
        /\ ~Less64(wdDelay, strategy.min)
        /\ ~Less64(strategy.max, wdDelay)

\* C19: a rate limiter constructed with rate <= 0 or duration <= 0 is the
\* zero value, and every call of limit on it returns at once, without
\* entering the select, whatever the context and however many calls.
C19_NoOpLimiter ==
    (rlPc # "idle" /\ (rate <= 0 \/ dur <= 0)) =>
        /\ rlPc = "built"
        /\ rl = NoRateLimit
        /\ \A c \in Callers :
            /\ limitPc[c] # "blocked"
            /\ limitCalls[c] > 0 => (limitPc[c] = "returned" /\ limitBy[c] = "noop")

C19_Witness ==
    /\ rlPc = "built"
    /\ rate > 0
    /\ dur <= 0
    /\ \E c, d \in Callers :
        /\ limitCalls[c] = MaxCalls /\ limitBy[c] = "noop" /\ limitCtx[c]
        /\ limitCalls[d] = MaxCalls /\ limitBy[d] = "noop" /\ ~limitCtx[d]

\* C20: on an active limiter a call of limit that has entered the select
\* returns only by taking a tick from the ticker's channel or, with its
\* context done, by the Done case, which stops the ticker; with the context
\* done and no tick in the channel the Done case can be taken at once.
C20_LimitReturns ==
    /\ [][\A c \in Callers :
            (limitPc[c] = "blocked" /\ limitPc'[c] = "returned") =>
                \/ rl.ticks > 0 /\ rl'.ticks = rl.ticks - 1 /\ limitBy'[c] = "tick"
                \/ limitCtx[c] /\ rl'.ticker = "stopped" /\ limitBy'[c] = "ctx"]_vars
    /\ [](\A c \in Callers :
            /\ limitBy[c] \in {"tick", "ctx"} => rl.enforcedRate > 0
            /\ limitPc[c] = "blocked" => rl.enforcedRate > 0
            /\ (limitPc[c] = "blocked" /\ limitCtx[c] /\ rl.ticks = 0) =>
                    ENABLED (\E drained \in BOOLEAN : limitDoneCase(c, drained)))

C20_Witness ==
    /\ rl.ticker = "stopped"
    /\ rl.ticks = 0
    /\ \E c, d \in Callers :
        /\ limitPc[c] = "returned" /\ limitBy[c] = "ctx"
        /\ limitPc[d] = "returned" /\ limitBy[d] = "tick"

\* C21: an active limiter holds at most one unused tick; the calls it admits
\* are admitted by ticks sent at least one interval apart, and the n-th
\* admitted call by a tick sent no earlier than n intervals after creation.
C21_FixedSchedule ==
    /\ rl.ticks <= 1
    /\ \A n \in 1..Len(admitted) :
        /\ admitted[n].tick >= n * rl.enforcedRate
        /\ admitted[n].tick <= tickTime
        /\ n > 1 => admitted[n].tick - admitted[n - 1].tick >= rl.enforcedRate

C21_Witness ==
    /\ Len(admitted) >= 3
    /\ rl.enforcedRate = 1
    /\ admitted[2].tick >= admitted[1].tick + 2
    /\ admitted[3].tick = admitted[2].tick + 1

\* C22 as stated: a call of limit whose context is live is eventually
\* admitted by a tick; so a caller blocked in limit with a live context is
\* never in a state where no tick is held and none will be sent.
C22_LiveCallerAdmitted ==
    \A c \in Callers :
        (limitPc[c] = "blocked" /\ ~limitCtx[c]) =>
            (rl.ticks > 0 \/ rl.ticker = "running")

\* C24 as stated: for rate > 0 and duration > 0 newRateLimit returns an
\* active limiter whose interval is duration / rate and strictly positive.
C24_ActiveLimiter ==
    (rlPc # "idle" /\ rate > 0 /\ dur > 0) =>
        /\ rlPc = "built"
        /\ rl.enforcedRate = Quo(dur, rate)
        /\ rl.enforcedRate > 0
        /\ rl.ticker # "nil"

\* C23: when a rate limit is configured (a limiter with a positive interval
\* has been built), Do issues the first physical attempt of a logical request
\* only after a call of limit has returned.
C23_PermitBeforeFirstAttempt ==
    [][(rlPc = "built" /\ rl.enforcedRate > 0 /\ attempts = 0 /\ attempts' = 1)
          => \E c \in Callers : limitPc[c] = "returned"]_vars

\* the Content-Type headers detectDecoder knows, with their decoders
KnownContentTypes == {ContentTypeJSON, ContentTypeGob, ContentTypeXML}

\* the last call was a Decode whose options all returned nil
Decoded == lastCall.op = "Decode" /\ lastCall.err # "option"

\* the last call was a Decode without a decoder option on a Response that
\* had no decoder selected
DecodedUnselected == Decoded /\ lastCall.explicit = "nil" /\ lastCall.pre = "nil"

\* C25: when the options of a Decode call select a decode function, that
\* function is the one applied to the body, whatever the Content-Type header
\* and whatever was selected before; of several such options the last wins.
C25_ExplicitDecoderApplied ==
    (Decoded /\ lastCall.explicit # "nil") => lastCall.invoked = lastCall.explicit

C25_Witness ==
    /\ Decoded
    /\ resps[lastCall.r].contentType = ContentTypeJSON
    /\ lastCall.pre = "gobDecodeFunc"
    /\ lastCall.explicit = "xmlDecodeFunc"
    /\ lastCall.invoked = "xmlDecodeFunc"
    /\ Len(lastCall.consumed) = BodyLen

C27_NoGuess ==
    (DecodedUnselected /\ resps[lastCall.r].contentType \notin KnownContentTypes) =>
        /\ lastCall.err = "no valid decoder specified"
        /\ lastCall.invoked = "nil"
        /\ lastCall.consumed = << >>

C27_Witness ==
    /\ DecodedUnselected
    /\ resps[lastCall.r].contentType = "text/plain"
    /\ lastCall.err = "no valid decoder specified"
    /\ resps[lastCall.r].rawPos = 0

\* C28: every call of Decode that has returned has called Close on the raw
\* response body.
C28_DecodeClosesBody ==
    lastCall.op = "Decode" => resps[lastCall.r].rawClosed

\* C29: after a Decode with WithCopiedBody, what Body() reads is exactly the
\* bytes the decode function read from the raw stream, in order.
C29_CopyIsWhatWasDecoded ==
    (lastCall.op = "Decode" /\ lastCall.copied) => Body(lastCall.r) = lastCall.consumed

\* C30: when Close has been called twice on a Response, after whatever calls
\* of Decode and Bytes, both calls returned nil and at most one of them handed
\* the copy buffer to putBuffer.
C30_CloseIdempotent ==
    \A r \in Responses :
        Len(closed[r]) >= 2 =>
            /\ \A k \in 1..Len(closed[r]) : closed[r][k].err = "nil"
            /\ Cardinality({k \in 1..Len(closed[r]) : closed[r][k].put # 0}) <= 1

\* C31: once a Decode or a Bytes call has closed the raw body, a later Close
\* does not call Close on the raw body again; and a Close that gets io.EOF
\* from the raw body returns nil.
C31_CloseSkipsClosedBody ==
    \A r \in Responses : \A k \in 1..Len(closed[r]) :
        /\ resps[r].closedBy \in {"Decode", "Bytes"} => ~closed[r][k].raw
        /\ (closed[r][k].raw /\ closed[r][k].ce = "EOF") => closed[r][k].err = "nil"

\* C32: a buffer handed out by getBuffer has one owner until it is released:
\* no call is handed a buffer another Response still owns, and no call reads
\* or writes, through copiedBody, Body() or Bytes(), a buffer its Response
\* does not own at that moment.
C32_SingleOwner == ~lastCall.shared

\* C38: when Do has returned a response for a request with a deadline and the
\* caller has not cancelled its context, the context derived from the
\* deadline is still live, or done only because the deadline has passed.
C38_ContextLiveOnReturn ==
    (pc = "done" /\ req.deadline /\ result.err = "nil" /\ ctxErr = "nil")
        => cErr \in {"nil", "DeadlineExceeded"}

\* C33: the encoder goroutine of multipartPayload is not leaked: whenever
\* nothing more can happen to the request, the goroutine, if one was started,
\* has returned.
C33_EncoderTerminates == encPc \in {"none", "exited"} \/ ENABLED NextPayload

\* C34: the encoder's write of req.multiPartFormErr comes before the loop's
\* read of it after attempt 1: the value the loop found then is the value the
\* field has ever after.
C34_WriteBeforeRead ==
    (req.optMultiPartForm /\ Len(outcomes) >= 1 /\ outcomes[1].err = "nil")
        => outcomes[1].formErr = req.multiPartFormErr

\* C37: every attempt is offered the complete payload: while an attempt is in
\* flight, no byte of the payload has been consumed by an earlier attempt.
C37_CompletePayloadEachAttempt ==
    pc = "inflight" => \A p \in 1..PayloadLen : consumedBy[p] \in {0, attempts}

\* C39: NewRequest returns for every combination of multipart options: the
\* call is never left at a point from which nothing can make it return.
C39_NewRequestReturns == newRequestPc = "returned" \/ ENABLED NextPayload

\* C35: when the mock's Do has matched a request to an expectation it returns
\* what that expectation was configured with: the error of WithResponseError
\* if there is one, otherwise a response with the status code of
\* WithResponseStatusCode and the configured body.
C35_MockReturnsConfigured ==
    lastDo.metIdx # 0 =>
        LET e == expectedRequests[lastDo.metIdx]
        IN  IF e.err # "nil"
            THEN lastDo.err = e.err
            ELSE /\ lastDo.err = "nil"
                 /\ lastDo.statusCode = e.responseStatusCode
                 /\ lastDo.body = e.responseBody

\* C40: Equal leaves both requests as they were, so that without
\* expectations in order Do matches a request to an unmet expectation it
\* equals wherever that expectation stands, marks that one met, and matches
\* no expectation to two calls of Do.
C40_EqualIsPure ==
    /\ \A k \in 1..Len(expectedRequests) :
            /\ expectedRequests[k].request = expectedRequests[k].built
            /\ metBy[k] <= 1
    /\ lastDo.left = lastDo.passed
    /\ (~withExpectationsInOrder /\ ~lastDo.ctxDone /\ lastDo.err # "panic")
            => /\ lastDo.equalUnmet # {} => lastDo.metIdx \in lastDo.equalUnmet
               /\ lastDo.metIdx # 0 => lastDo.metIdx \in lastDo.equalUnmet

\* the arguments of the options called name among os, in the order of os
optionArgs(os, name) ==
    LET named == SelectSeq(os, LAMBDA o : o.name = name)
    IN  [k \in 1..Len(named) |-> named[k].n]

====
